---- MODULE Spec2Model ----
(***************************************************************************)
(* RepoX: the application state store (state/index.ts), the render cycle   *)
(* and graph lifecycle (main.ts, components/Graph.ts) and the challenge    *)
(* modal with its durable gamification progress (main.ts, state/index.ts). *)
(*                                                                         *)
(* Optional values (T | null) are sequences: None is <<>>, Some(x) is      *)
(* <<x>>.  A handler is one action; the synchronous calls it makes are     *)
(* composed as functions on a record `w` of the values they read and       *)
(* write, and the action assigns the final record to the variables.        *)
(***************************************************************************)
EXTENDS Integers, Sequences, FiniteSets, TLC

None == <<>>
Some(x) == <<x>>

Range(s) == {s[i] : i \in 1..Len(s)}
Drop(s, n) == SubSeq(s, n + 1, Len(s))
Quote == "\""

(***************************************************************************)
(* Data: repositories, file trees                                          *)
(***************************************************************************)

\* FileNode (types/github.ts): files carry a size, folders carry children.
File(path, size) == [path |-> path, type |-> "file", size |-> size, children |-> <<>>]
Folder(path, children) == [path |-> path, type |-> "folder", size |-> 0, children |-> children]

\* Two repositories as the repository collaborator returns them.  Both hold a
\* file with the path "a.ts", the two nodes differing in size, and a folder
\* with the path "src".
TreeA == Folder("", << Folder("src", << File("src/b.ts", 20) >>), File("a.ts", 10) >>)
TreeB == Folder("", << Folder("src", << File("src/c.ts", 5) >>), File("a.ts", 30) >>)
Repos == {"A", "B"}
TreeOfRepo(r) == IF r = "A" THEN TreeA ELSE TreeB

(***************************************************************************)
(* Application State Store                                                 *)
(***************************************************************************)

Fields == {"view", "repoUrl", "loading", "error", "currentRepo", "fileTree", "selectedFile"}

initialState ==
  [ view |-> "landing", repoUrl |-> <<>>, loading |-> FALSE, error |-> None,
    currentRepo |-> None, fileTree |-> None, selectedFile |-> None ]

\* { ...state, ...updates }: shallow merge, last write wins per field.
Merge(s, updates) ==
  [f \in Fields |-> IF f \in DOMAIN updates THEN updates[f] ELSE s[f]]

VARIABLES
  state,            \* the store's current AppState
  listeners,        \* the subscriber Set, in insertion order
  tab,              \* localStorage 'repox_view_tab'
  expandedFolders,  \* FileTree.ts: the expanded-folder Set
  pathStore,        \* localStorage 'repox_learning_path_<name>', per repository
  simulation,       \* Graph.ts: the module's simulation reference
  running,          \* simulations created and not stopped
  attached,         \* running simulations whose container is in the document
  graph,            \* nodes and links of the current simulation
  dom,              \* what the last render() put under #app
  infoBar,          \* the floating #graph-file-info bar
  pendingFetch,     \* fetchRepository calls not yet settled, per repository
  pendingPath,      \* generateLearningPath calls not yet settled
  notified,         \* listener calls made by the last handler: <<[listener, seen]>>
  events,           \* custom events dispatched by the last handler
  renders,          \* render() runs in the last handler
  orphaned,         \* simulations that were running when the last handler's
                    \* render() replaced their container
  lastOp,           \* the last handler that ran, with its arguments
  challengeModalState, \* main.ts: the challenge session, or None
  modal,            \* what #challenge-modal shows
  pendingGen,       \* generateChallenges calls not yet settled, per module
  progressStore,    \* localStorage 'repox_user_progress'
  challengeCache,   \* localStorage 'repox_challenges_cache_<repo>_<module>'
  moduleCompletion, \* localStorage 'repox_module_completion_<repo>'
  now,              \* Date.now(), in hours
  sessionStart,     \* history: challengesCompleted when the session was created
  chatState,        \* main.ts: chatState {isOpen, messages, isLoading}
  sidebarOpen,      \* #chat-sidebar has the class 'open'
  fab,              \* the #chat-fab button is in the document
  pendingChat,      \* a chat() call is not yet settled
  input,            \* the arguments of a function applied on its own
  output            \* its result, None before the call

storeVars == <<state, listeners>>
viewVars == <<tab, expandedFolders, pathStore, simulation, running, attached, graph, dom, infoBar>>
asyncVars == <<pendingFetch, pendingPath>>
logVars == <<notified, events, renders, orphaned, lastOp>>
chatVars == <<chatState, sidebarOpen, fab, pendingChat>>
callVars == <<input, output>>
challengeVars == <<challengeModalState, modal, pendingGen, progressStore, challengeCache,
                   moduleCompletion, now, sessionStart>>
vars == <<storeVars, viewVars, asyncVars, logVars, challengeVars, chatVars, callVars>>

\* The values a handler's synchronous code reads and writes; the per-handler
\* logs start empty.
World ==
  [ state |-> state, listeners |-> listeners, tab |-> tab,
    expandedFolders |-> expandedFolders, pathStore |-> pathStore,
    simulation |-> simulation, running |-> running, attached |-> attached,
    graph |-> graph, dom |-> dom, infoBar |-> infoBar,
    chatState |-> chatState, sidebarOpen |-> sidebarOpen, fab |-> fab,
    pendingChat |-> pendingChat,
    notified |-> <<>>, events |-> <<>>, renders |-> 0, orphaned |-> {} ]

AssignView(w) ==
  /\ state' = w.state
  /\ listeners' = w.listeners
  /\ tab' = w.tab
  /\ expandedFolders' = w.expandedFolders
  /\ pathStore' = w.pathStore
  /\ simulation' = w.simulation
  /\ running' = w.running
  /\ attached' = w.attached
  /\ graph' = w.graph
  /\ dom' = w.dom
  /\ infoBar' = w.infoBar
  /\ chatState' = w.chatState
  /\ sidebarOpen' = w.sidebarOpen
  /\ fab' = w.fab
  /\ pendingChat' = w.pendingChat
  /\ notified' = w.notified
  /\ events' = w.events
  /\ renders' = w.renders
  /\ orphaned' = w.orphaned

\* A handler that touches nothing of the challenge modal.
Assign(w) == AssignView(w) /\ UNCHANGED <<challengeVars, callVars>>

getState(w) == w.state

(***************************************************************************)
(* Graph component (components/Graph.ts)                                   *)
(***************************************************************************)

GraphMaxDepth == 3
GraphMaxNodes == 150

RECURSIVE traverse(_, _, _, _, _, _)
RECURSIVE traverseChildren(_, _, _, _, _, _)

traverse_Unbounded(node, depth, parentId, acc, maxDepth, maxNodes) ==
  IF depth > maxDepth /\ node.type = "folder" THEN acc
  ELSE
    LET id == IF node.path = "" THEN "root" ELSE node.path
        graphNode == [id |-> id, path |-> node.path, type |-> node.type, depth |-> depth]
        withNode == [acc EXCEPT !.nodes = Append(@, graphNode)]
        withLink == IF parentId # None
                    THEN [withNode EXCEPT !.links =
                            Append(@, [source |-> parentId[1], target |-> id])]
                    ELSE withNode
    IN  traverseChildren(node.children, depth + 1, Some(id), withLink, maxDepth, maxNodes)

traverse_AnyDepth(node, depth, parentId, acc, maxDepth, maxNodes) ==
  IF Len(acc.nodes) >= maxNodes THEN acc
  ELSE
    LET id == IF node.path = "" THEN "root" ELSE node.path
        graphNode == [id |-> id, path |-> node.path, type |-> node.type, depth |-> depth]
        withNode == [acc EXCEPT !.nodes = Append(@, graphNode)]
        withLink == IF parentId # None
                    THEN [withNode EXCEPT !.links =
                            Append(@, [source |-> parentId[1], target |-> id])]
                    ELSE withNode
    IN  traverseChildren(node.children, depth + 1, Some(id), withLink, maxDepth, maxNodes)

traverse_LinkFromRoot(node, depth, parentId, acc, maxDepth, maxNodes) ==
  IF Len(acc.nodes) >= maxNodes THEN acc
  ELSE IF depth > maxDepth /\ node.type = "folder" THEN acc
  ELSE
    LET id == IF node.path = "" THEN "root" ELSE node.path
        graphNode == [id |-> id, path |-> node.path, type |-> node.type, depth |-> depth]
        withNode == [acc EXCEPT !.nodes = Append(@, graphNode)]
        withLink == IF parentId # None
                    THEN [withNode EXCEPT !.links =
                            Append(@, [source |-> "root", target |-> id])]
                    ELSE withNode
    IN  traverseChildren(node.children, depth + 1, Some(id), withLink, maxDepth, maxNodes)

\* treeToGraph.traverse: acc is [nodes, links]; parentId is None for the root.
traverse(node, depth, parentId, acc, maxDepth, maxNodes) ==
  IF Len(acc.nodes) >= maxNodes THEN acc
  ELSE IF depth > maxDepth /\ node.type = "folder" THEN acc
  ELSE
    LET id == IF node.path = "" THEN "root" ELSE node.path
        graphNode == [id |-> id, path |-> node.path, type |-> node.type, depth |-> depth]
        withNode == [acc EXCEPT !.nodes = Append(@, graphNode)]
        withLink == IF parentId # None
                    THEN [withNode EXCEPT !.links =
                            Append(@, [source |-> parentId[1], target |-> id])]
                    ELSE withNode
    IN  traverseChildren(node.children, depth + 1, Some(id), withLink, maxDepth, maxNodes)

traverseChildren(children, depth, parentId, acc, maxDepth, maxNodes) ==
  IF children = <<>> THEN acc
  ELSE traverseChildren(Tail(children), depth, parentId,
                        traverse(Head(children), depth, parentId, acc, maxDepth, maxNodes),
                        maxDepth, maxNodes)

treeToGraph(root, maxDepth, maxNodes) ==
  traverse(root, 0, None, [nodes |-> <<>>, links |-> <<>>], maxDepth, maxNodes)

RECURSIVE findNodeByPath(_, _)
RECURSIVE findInChildren(_, _)

\* First node in preorder whose path is `path`; root is an optional FileNode.
findNodeByPath(root, path) ==
  IF root = None THEN None
  ELSE IF root[1].path = path THEN root
  ELSE findInChildren(root[1].children, path)

findInChildren(children, path) ==
  IF children = <<>> THEN None
  ELSE LET found == findNodeByPath(Some(Head(children)), path)
       IN  IF found # None THEN found ELSE findInChildren(Tail(children), path)

NoGraph == [nodes |-> <<>>, links |-> <<>>]

\* simulation.stop(); svg.remove()
cleanupGraph_KeepReference(w) ==
  [w EXCEPT !.running = @ \ Range(w.simulation),
            !.attached = @ \ Range(w.simulation),
            !.graph = NoGraph]

cleanupGraph(w) ==
  [w EXCEPT !.running = @ \ Range(w.simulation),
            !.attached = @ \ Range(w.simulation),
            !.simulation = None,
            !.graph = NoGraph]

\* A simulation object that is none of `used`.
NewSimulation(used) == CHOOSE i \in 1..(Cardinality(used) + 1) : i \notin used

renderGraph_NoCleanup(w, fileTree) ==
  LET sim == NewSimulation(w.running \cup Range(w.simulation))
  IN  [w EXCEPT !.simulation = Some(sim),
                !.running = @ \cup {sim},
                !.attached = @ \cup {sim},
                !.graph = treeToGraph(fileTree, GraphMaxDepth, GraphMaxNodes)]

renderGraph(w, fileTree) ==
  LET c == cleanupGraph(w)
      sim == NewSimulation(c.running \cup Range(w.simulation))
  IN  [c EXCEPT !.simulation = Some(sim),
                !.running = @ \cup {sim},
                !.attached = @ \cup {sim},
                !.graph = treeToGraph(fileTree, GraphMaxDepth, GraphMaxNodes)]

\* Called with the #graph-container element main.ts found.
initializeGraph(w, fileTree) == renderGraph(w, fileTree)

\* 'repox:fileselected' listener of main.ts: the bar is appended to .graph-panel.
onFileSelected(w, file) ==
  IF w.dom.main = "graph" THEN [w EXCEPT !.infoBar = Some(file)] ELSE w

updateFilePanel(w, file) ==
  onFileSelected([w EXCEPT !.events = Append(@, [type |-> "repox:fileselected", file |-> Some(file)])],
                 file)

(***************************************************************************)
(* File tree component (components/FileTree.ts)                            *)
(***************************************************************************)

toggleFolder(w, path) ==
  [w EXCEPT !.expandedFolders =
     IF path \in @ THEN @ \ {path} ELSE @ \cup {path}]

RECURSIVE renderNode(_, _)
RECURSIVE renderNodes(_, _)

\* The tree-node elements renderNode emits for `node`: [path, type].
renderNode(node, expanded) ==
  {[path |-> node.path, type |-> node.type]}
  \cup (IF node.type = "folder" /\ node.path \in expanded
        THEN renderNodes(node.children, expanded) ELSE {})

renderNodes(children, expanded) ==
  IF children = <<>> THEN {}
  ELSE renderNode(Head(children), expanded) \cup renderNodes(Tail(children), expanded)

(***************************************************************************)
(* JSON values and their text (JSON.stringify / JSON.parse), and the       *)
(* learning-path store (main.ts).  A value is <<"null">>, <<"str", s>>,    *)
(* <<"arr", items>> or <<"obj", fields>> with fields a sequence of         *)
(* <<key, value>>; a text is a sequence of lexemes, a string literal being *)
(* the lexeme "\"" followed by its content.                                *)
(***************************************************************************)

JNull == <<"null">>
JStr(s) == <<"str", s>>
JArr(items) == <<"arr", items>>
JObj(fields) == <<"obj", fields>>
JNum(s) == <<"num", s>>

\* The numerals that occur in stored texts, with their values.
Numerals == ("0" :> 0) @@ ("1" :> 1) @@ ("2" :> 2) @@ ("3" :> 3) @@ ("30" :> 30)

RECURSIVE stringify(_)
RECURSIVE stringifyItems(_)
RECURSIVE stringifyFields(_)

stringify(v) ==
  IF v[1] = "null" THEN <<"null">>
  ELSE IF v[1] = "str" THEN <<Quote, v[2]>>
  ELSE IF v[1] = "num" THEN <<v[2]>>
  ELSE IF v[1] = "arr" THEN <<"[">> \o stringifyItems(v[2]) \o <<"]">>
  ELSE <<"{">> \o stringifyFields(v[2]) \o <<"}">>

stringifyItems(items) ==
  IF items = <<>> THEN <<>>
  ELSE stringify(Head(items))
       \o (IF Len(items) > 1 THEN <<",">> \o stringifyItems(Tail(items)) ELSE <<>>)

stringifyFields(fields) ==
  IF fields = <<>> THEN <<>>
  ELSE <<Quote, Head(fields)[1], ":">> \o stringify(Head(fields)[2])
       \o (IF Len(fields) > 1 THEN <<",">> \o stringifyFields(Tail(fields)) ELSE <<>>)

\* Parsing: None when the text is not JSON, else Some([v, rest]).
RECURSIVE parseValue(_)
RECURSIVE parseItems(_, _)
RECURSIVE parseFields(_, _)

parseValue(t) ==
  IF t = <<>> THEN None
  ELSE IF Head(t) = "null" THEN Some([v |-> JNull, rest |-> Tail(t)])
  ELSE IF Head(t) \in DOMAIN Numerals THEN Some([v |-> JNum(Head(t)), rest |-> Tail(t)])
  ELSE IF Head(t) = Quote
    THEN IF Len(t) >= 2 THEN Some([v |-> JStr(t[2]), rest |-> Drop(t, 2)]) ELSE None
  ELSE IF Head(t) = "["
    THEN IF Len(t) >= 2 /\ t[2] = "]" THEN Some([v |-> JArr(<<>>), rest |-> Drop(t, 2)])
         ELSE parseItems(Tail(t), <<>>)
  ELSE IF Head(t) = "{"
    THEN IF Len(t) >= 2 /\ t[2] = "}" THEN Some([v |-> JObj(<<>>), rest |-> Drop(t, 2)])
         ELSE parseFields(Tail(t), <<>>)
  ELSE None

\* after "[" or ",": a value, then "," or "]"
parseItems(t, acc) ==
  LET item == parseValue(t)
  IN  IF item = None \/ item[1].rest = <<>> THEN None
      ELSE LET items == Append(acc, item[1].v)
               rest == item[1].rest
           IN  IF Head(rest) = "]" THEN Some([v |-> JArr(items), rest |-> Tail(rest)])
               ELSE IF Head(rest) = "," THEN parseItems(Tail(rest), items)
               ELSE None

\* after "{" or ",": a key, ":", a value, then "," or "}"
parseFields(t, acc) ==
  IF Len(t) < 3 \/ t[1] # Quote \/ t[3] # ":" THEN None
  ELSE LET item == parseValue(Drop(t, 3))
       IN  IF item = None \/ item[1].rest = <<>> THEN None
           ELSE LET fields == Append(acc, <<t[2], item[1].v>>)
                    rest == item[1].rest
                IN  IF Head(rest) = "}" THEN Some([v |-> JObj(fields), rest |-> Tail(rest)])
                    ELSE IF Head(rest) = "," THEN parseFields(Tail(rest), fields)
                    ELSE None

\* JSON.parse: Some(value), or None when it throws
parse(text) ==
  LET r == parseValue(text)
  IN  IF r # None /\ r[1].rest = <<>> THEN Some(r[1].v) ELSE None

NoPaths == [r \in Repos |-> None]

saveLearningPath_SharedKey(store, repoName, path) ==
  [r \in Repos |-> Some(stringify(path))]

saveLearningPath(store, repoName, path) ==
  [store EXCEPT ![repoName] = Some(stringify(path))]

\* The saved path, or JNull for null.
getSavedLearningPath(store, repoName) ==
  LET saved == store[repoName]
  IN  IF saved # None /\ saved[1] # <<>>
      THEN IF parse(saved[1]) # None THEN parse(saved[1])[1] ELSE JNull
      ELSE JNull

\* The repositories for which renderHeader finds a saved path.
savedPaths(store) == {r \in Repos : getSavedLearningPath(store, r) # JNull}

\* A learning path as the AI collaborator returns it, structured and as raw text.
StructuredPath ==
  JObj(<< <<"overview", JStr("o")>>,
          <<"prerequisites", JArr(<<>>)>>,
          <<"modules", JArr(<< JObj(<< <<"title", JStr("m0")>>,
                                       <<"files", JArr(<<JStr("a.ts"), JStr("]")>>)>> >>),
                               JObj(<< <<"title", JStr("m1")>> >>) >>)>>,
          <<"projects", JArr(<< JObj(<<>>) >>)>> >>)

\* The path saved in the application runs: its two modules, the other fields
\* left out.
GeneratedPath == JObj(<< <<"modules", JArr(<< JObj(<<>>), JObj(<<>>) >>)>> >>)

TestPaths == { StructuredPath, GeneratedPath, JStr("raw text"), JStr(""), JStr(","), JObj(<<>>),
               JArr(<<JNull, JStr("x")>>) }

(***************************************************************************)
(* Render engine (main.ts)                                                 *)
(***************************************************************************)

EmptyDom ==
  [view |-> "landing", main |-> "landing", nodes |-> {}, pathBtn |-> FALSE, back |-> "none"]

\* renderHeader / renderLanding / renderRepoView: the markup for the state.
Markup(st, currentTab, expanded, paths) ==
  [ view |-> st.view,
    main |-> IF st.view = "landing" THEN "landing"
             ELSE IF st.fileTree = None THEN "empty"
             ELSE IF currentTab = "graph" THEN "graph"
             ELSE IF st.selectedFile # None THEN "file" ELSE "welcome",
    nodes |-> IF st.view = "repo" /\ st.fileTree # None
              THEN renderNodes(st.fileTree[1].children, expanded) ELSE {},
    pathBtn |-> st.currentRepo # None /\ st.currentRepo[1] \in paths,
    \* which click handler #back-to-home carries: the one attachEventListeners
    \* gives it ("page"), or none when the logo is not a button
    back |-> IF st.view = "repo" THEN "page" ELSE "none" ]

\* The synchronous part: in the repo view with the graph tab, the graph is
\* initialised in the #graph-container the markup just created.
attachEventListeners(w) ==
  IF w.state.view = "repo" /\ w.tab = "graph" /\ w.state.fileTree # None
  THEN initializeGraph(w, w.state.fileTree[1])
  ELSE w

\* app.innerHTML = ...: every element under #app is replaced, and with it the
\* container of any simulation still running.
\* Chat sidebar (main.ts): the part render() and the back handler reach.
NoChat == [isOpen |-> FALSE, messages |-> <<>>, isLoading |-> FALSE]

initializeChatButton(w) ==
  IF getState(w).view # "repo" THEN w ELSE [w EXCEPT !.fab = TRUE]

renderChatSidebar(w) == [w EXCEPT !.sidebarOpen = TRUE]

hideChatSidebar(w) == [w EXCEPT !.sidebarOpen = FALSE]

clearChatHistory(w) ==
  LET w1 == [w EXCEPT !.chatState.messages = <<>>]
  IN  IF w1.chatState.isOpen THEN renderChatSidebar(w1) ELSE w1

replaceRoot(w, expanded) ==
  [w EXCEPT !.renders = @ + 1,
            !.expandedFolders = expanded,
            !.orphaned = @ \cup w.running,
            !.attached = {},
            !.infoBar = None,
            !.dom = Markup(w.state, w.tab, expanded, savedPaths(w.pathStore))]

render(w) ==
  LET st == getState(w)
      \* renderFileTree expands the root while the markup is computed
      expanded == IF st.view = "repo" /\ st.fileTree # None
                  THEN w.expandedFolders \cup {st.fileTree[1].path}
                  ELSE w.expandedFolders
  IN  initializeChatButton(attachEventListeners(replaceRoot(w, expanded)))

Op(name) == [op |-> name, silent |-> FALSE, updates |-> <<>>, again |-> FALSE, arg |-> None]

\* One listener call: the listener receives the store's current state.
\* The application's only subscriber is render (main.ts: subscribe(() => render())).
callListener(w, l) ==
  LET logged == [w EXCEPT !.notified = Append(@, [listener |-> l, seen |-> w.state])]
  IN  IF l = "render" THEN render(logged) ELSE logged

RECURSIVE forEachListener_Reverse(_, _)
forEachListener_Reverse(w, ls) ==
  IF ls = <<>> THEN w
  ELSE forEachListener_Reverse(callListener(w, ls[Len(ls)]), SubSeq(ls, 1, Len(ls) - 1))

RECURSIVE forEachListener(_, _)
forEachListener(w, ls) ==
  IF ls = <<>> THEN w
  ELSE forEachListener(callListener(w, Head(ls)), Tail(ls))

setState_NotifyAlways(w, updates, silent) ==
  forEachListener([w EXCEPT !.state = Merge(w.state, updates)], w.listeners)

setState_NotifyBeforeMerge(w, updates, silent) ==
  LET n == IF silent THEN w ELSE forEachListener(w, w.listeners)
  IN  [n EXCEPT !.state = Merge(w.state, updates)]

setState(w, updates, silent) ==
  LET merged == [w EXCEPT !.state = Merge(w.state, updates)]
  IN  IF ~silent THEN forEachListener(merged, merged.listeners) ELSE merged

resetState_Quiet(w) ==
  IF w.state = initialState THEN w
  ELSE forEachListener([w EXCEPT !.state = initialState], w.listeners)

resetState(w) ==
  forEachListener([w EXCEPT !.state = initialState], w.listeners)

\* Set.add keeps the position of a listener that is already registered.
subscribe(w, l) ==
  IF l \in Range(w.listeners) THEN w
  ELSE [w EXCEPT !.listeners = Append(@, l)]

unsubscribe(w, l) ==
  [w EXCEPT !.listeners = SelectSeq(@, LAMBDA x : x # l)]

setLoading(w, loading) ==
  setState(w, [loading |-> loading, error |-> None], FALSE)

setError(w, error) ==
  setState(w, [loading |-> FALSE, error |-> Some(error)], FALSE)

setRepoUrl_Notify(w, repoUrl, silent) ==
  setState(w, [repoUrl |-> repoUrl, error |-> None], FALSE)

setRepoUrl(w, repoUrl, silent) ==
  setState(w, [repoUrl |-> repoUrl, error |-> None], silent)

setRepoData_ClearSelection(w, info, tree) ==
  setState(w, [currentRepo |-> Some(info), fileTree |-> Some(tree), selectedFile |-> None,
               loading |-> FALSE, error |-> None, view |-> "repo"], FALSE)

setRepoData(w, info, tree) ==
  setState(w, [currentRepo |-> Some(info), fileTree |-> Some(tree),
               loading |-> FALSE, error |-> None, view |-> "repo"], FALSE)

selectFile(w, file, silent) ==
  setState(w, [selectedFile |-> file], silent)

goToLanding_KeepView(w) ==
  setState(w, [currentRepo |-> None, fileTree |-> None,
               selectedFile |-> None, error |-> None], FALSE)

goToLanding(w) ==
  setState(w, [view |-> "landing", currentRepo |-> None, fileTree |-> None,
               selectedFile |-> None, error |-> None], FALSE)

(***************************************************************************)
(* Gamification progress and the challenge cache (state/index.ts)          *)
(***************************************************************************)

Modules == {0, 1}
CacheKeys == Repos \X Modules

DEFAULT_PROGRESS ==
  [ totalXP |-> 0, currentStreak |-> 0, longestStreak |-> 0,
    challengesCompleted |-> 0, correctAnswers |-> 0, totalAnswers |-> 0,
    lastActivityDate |-> None ]

\* saved: the stored item, None when the key is absent
getUserProgress(saved) ==
  IF saved # None THEN saved[1] ELSE DEFAULT_PROGRESS

saveUserProgress(progress) == Some(progress)

\* new Date().toISOString().split('T')[0], as a day number (t is in hours)
Today(t) == t \div 24

addXP_NoHighWater(saved, points, wasCorrect, t) ==
  LET progress == getUserProgress(saved)
      p1 == [progress EXCEPT !.totalXP = @ + points, !.totalAnswers = @ + 1]
      p2 == IF wasCorrect
            THEN [p1 EXCEPT !.correctAnswers = @ + 1, !.currentStreak = @ + 1]
            ELSE [p1 EXCEPT !.currentStreak = 0]
  IN  saveUserProgress([p2 EXCEPT !.lastActivityDate = Some(Today(t))])

addXP(saved, points, wasCorrect, t) ==
  LET progress == getUserProgress(saved)
      p1 == [progress EXCEPT !.totalXP = @ + points, !.totalAnswers = @ + 1]
      p2 == IF wasCorrect
            THEN LET p == [p1 EXCEPT !.correctAnswers = @ + 1, !.currentStreak = @ + 1]
                 IN  IF p.currentStreak > p.longestStreak
                     THEN [p EXCEPT !.longestStreak = p.currentStreak] ELSE p
            ELSE [p1 EXCEPT !.currentStreak = 0]
  IN  saveUserProgress([p2 EXCEPT !.lastActivityDate = Some(Today(t))])

completeChallengeSet_NoCount(saved) == saveUserProgress(getUserProgress(saved))

completeChallengeSet(saved) ==
  saveUserProgress([getUserProgress(saved) EXCEPT !.challengesCompleted = @ + 1])

ChallengeTTL == 24

getCachedChallenges_NoExpiry(cache, repoName, moduleIndex, t) ==
  LET saved == cache[<<repoName, moduleIndex>>]
  IN  IF saved # None THEN Some(saved[1].challenges) ELSE None

\* The cached challenges, or None (null).
getCachedChallenges(cache, repoName, moduleIndex, t) ==
  LET saved == cache[<<repoName, moduleIndex>>]
  IN  IF saved # None /\ t - saved[1].timestamp < ChallengeTTL
      THEN Some(saved[1].challenges) ELSE None

cacheChallenges(cache, repoName, moduleIndex, challenges, t) ==
  [cache EXCEPT ![<<repoName, moduleIndex>>] =
                  Some([challenges |-> challenges, timestamp |-> t])]

(***************************************************************************)
(* Option text on its way through the markup (main.ts): text is a sequence *)
(* of characters.                                                          *)
(***************************************************************************)

escapeChar(ch) ==
  IF ch = "&" THEN <<"&", "a", "m", "p", ";">>
  ELSE IF ch = "<" THEN <<"&", "l", "t", ";">>
  ELSE IF ch = ">" THEN <<"&", "g", "t", ";">>
  ELSE <<ch>>

\* div.textContent = text; return div.innerHTML
RECURSIVE escapeHtml(_)
escapeHtml(text) ==
  IF text = <<>> THEN <<>> ELSE escapeChar(Head(text)) \o escapeHtml(Tail(text))

\* What the HTML parser reads of markup placed after data-answer=" : the
\* characters up to the closing double quote.
RECURSIVE attributeText(_)
attributeText(html) ==
  IF html = <<>> \/ Head(html) = Quote THEN <<>>
  ELSE <<Head(html)>> \o attributeText(Tail(html))

StartsWith(s, p) == Len(s) >= Len(p) /\ SubSeq(s, 1, Len(p)) = p

\* Character references in an attribute value.
RECURSIVE decodeEntities(_)
decodeEntities(s) ==
  IF s = <<>> THEN <<>>
  ELSE IF StartsWith(s, <<"&", "a", "m", "p", ";">>) THEN <<"&">> \o decodeEntities(Drop(s, 5))
  ELSE IF StartsWith(s, <<"&", "l", "t", ";">>) THEN <<"<">> \o decodeEntities(Drop(s, 4))
  ELSE IF StartsWith(s, <<"&", "g", "t", ";">>) THEN <<">">> \o decodeEntities(Drop(s, 4))
  ELSE <<Head(s)>> \o decodeEntities(Tail(s))

\* (btn as HTMLElement).dataset.answer || '' of the button rendered for option
datasetAnswer(option) == decodeEntities(attributeText(escapeHtml(option)))

SkipAnswer == <<"_", "_", "S", "K", "I", "P", "_", "_">>

\* Challenges as the generation endpoint returns them.
Q1 ==
  [ id |-> "q1", options |-> << <<"a", "<", "b">>, <<"a", "&", "b">> >>,
    correctAnswer |-> <<"a", "&", "b">>, points |-> 25 ]
Q2 ==
  [ id |-> "q2", options |-> << <<Quote, "h", "i", Quote>>, <<"h", "i">> >>,
    correctAnswer |-> <<Quote, "h", "i", Quote>>, points |-> 10 ]

\* The non-empty lists the endpoint answers with for a module.
ChallengeSets(moduleIndex) == IF moduleIndex = 0 THEN { <<Q1>> } ELSE { <<Q1, Q2>> }

(***************************************************************************)
(* The challenge modal (main.ts)                                           *)
(***************************************************************************)

NoModal == [display |-> FALSE, content |-> "none", isLast |-> FALSE]

InitChatState ==
  /\ input = None
  /\ output = None
  /\ chatState = NoChat
  /\ sidebarOpen = FALSE
  /\ fab = FALSE
  /\ pendingChat = FALSE

InitChallenge ==
  /\ challengeModalState = None
  /\ modal = NoModal
  /\ pendingGen = [k \in CacheKeys |-> 0]
  /\ progressStore = None
  /\ challengeCache = [k \in CacheKeys |-> None]
  /\ moduleCompletion = {}
  /\ now = 0
  /\ sessionStart = 0

\* What the modal's synchronous code reads and writes.
ChallengeWorld ==
  [ challengeModalState |-> challengeModalState, modal |-> modal,
    pendingGen |-> pendingGen, progressStore |-> progressStore,
    challengeCache |-> challengeCache, moduleCompletion |-> moduleCompletion,
    now |-> now, sessionStart |-> sessionStart ]

AssignChallenge(c) ==
  /\ challengeModalState' = c.challengeModalState
  /\ modal' = c.modal
  /\ pendingGen' = c.pendingGen
  /\ progressStore' = c.progressStore
  /\ challengeCache' = c.challengeCache
  /\ moduleCompletion' = c.moduleCompletion
  /\ now' = c.now
  /\ sessionStart' = c.sessionStart
  /\ UNCHANGED callVars

hideChallengeModal(c) ==
  [c EXCEPT !.modal.display = FALSE, !.challengeModalState = None]

showChallengeLoadingModal(c) ==
  [c EXCEPT !.modal = [display |-> TRUE, content |-> "loading", isLast |-> FALSE]]

renderChallengeQuestion(c) ==
  IF c.challengeModalState = None THEN c
  ELSE [c EXCEPT !.modal = [display |-> TRUE, content |-> "question", isLast |-> FALSE]]

showAnswerFeedback(c) ==
  IF c.modal.content = "none" \/ c.challengeModalState = None THEN c
  ELSE LET s == c.challengeModalState[1]
       IN  [c EXCEPT !.modal = [display |-> c.modal.display, content |-> "feedback",
                                isLast |-> s.currentIndex >= Len(s.challenges) - 1]]

handleChallengeAnswer_SkipUnrecorded(c, selectedAnswer) ==
  IF c.challengeModalState = None THEN c
  ELSE LET s == c.challengeModalState[1]
           challenge == s.challenges[s.currentIndex + 1]
           isSkip == selectedAnswer = SkipAnswer
           isCorrect == ~isSkip /\ selectedAnswer = challenge.correctAnswer
           earnedPoints == IF isCorrect THEN challenge.points ELSE 0
           c1 == IF ~isSkip
                 THEN [c EXCEPT !.progressStore = addXP(@, earnedPoints, isCorrect, c.now),
                                !.challengeModalState =
                                   Some([s EXCEPT !.results =
                                     Append(@, [correct |-> isCorrect, points |-> earnedPoints])])]
                 ELSE c
       IN  showAnswerFeedback(c1)

handleChallengeAnswer_SkipCounts(c, selectedAnswer) ==
  IF c.challengeModalState = None THEN c
  ELSE LET s == c.challengeModalState[1]
           challenge == s.challenges[s.currentIndex + 1]
           isCorrect == selectedAnswer = challenge.correctAnswer
           earnedPoints == IF isCorrect THEN challenge.points ELSE 0
           c1 == [c EXCEPT !.progressStore = addXP(@, earnedPoints, isCorrect, c.now)]
           c2 == [c1 EXCEPT !.challengeModalState =
                    Some([s EXCEPT !.results =
                            Append(@, [correct |-> isCorrect, points |-> earnedPoints])])]
       IN  showAnswerFeedback(c2)

handleChallengeAnswer(c, selectedAnswer) ==
  IF c.challengeModalState = None THEN c
  ELSE LET s == c.challengeModalState[1]
           challenge == s.challenges[s.currentIndex + 1]
           isSkip == selectedAnswer = SkipAnswer
           isCorrect == ~isSkip /\ selectedAnswer = challenge.correctAnswer
           earnedPoints == IF isCorrect THEN challenge.points ELSE 0
           c1 == IF ~isSkip
                 THEN [c EXCEPT !.progressStore = addXP(@, earnedPoints, isCorrect, c.now)]
                 ELSE c
           c2 == [c1 EXCEPT !.challengeModalState =
                    Some([s EXCEPT !.results =
                            Append(@, [correct |-> isCorrect, points |-> earnedPoints])])]
       IN  showAnswerFeedback(c2)

showChallengeResults(c) ==
  IF c.modal.content = "none" \/ c.challengeModalState = None THEN c
  ELSE [c EXCEPT !.progressStore = completeChallengeSet(@),
                 !.modal = [display |-> c.modal.display, content |-> "results",
                            isLast |-> FALSE]]

nextChallenge_AlwaysAdvance(c) ==
  renderChallengeQuestion(
    [c EXCEPT !.challengeModalState = Some([@[1] EXCEPT !.currentIndex = @ + 1])])

\* click handler of #next-challenge-btn; isLast is the value captured when the
\* feedback was shown
nextChallenge(c) ==
  IF c.modal.isLast THEN showChallengeResults(c)
  ELSE renderChallengeQuestion(
         [c EXCEPT !.challengeModalState = Some([@[1] EXCEPT !.currentIndex = @ + 1])])

\* The end of showChallengeModal: the session is created and its first
\* question shown.  sessionStart remembers the counter at that moment.
startSession(c, challenges, repoName, moduleIndex) ==
  renderChallengeQuestion(
    [c EXCEPT !.challengeModalState =
                Some([challenges |-> challenges, currentIndex |-> 0, results |-> <<>>,
                      repoName |-> repoName, moduleIndex |-> moduleIndex]),
              !.sessionStart = getUserProgress(c.progressStore).challengesCompleted])

\* showChallengeModal up to its await, or to its end on a cache hit.
showChallengeModal(c, repoName, moduleIndex) ==
  LET challenges == getCachedChallenges(c.challengeCache, repoName, moduleIndex, c.now)
  IN  IF challenges = None \/ challenges[1] = <<>>
      THEN [showChallengeLoadingModal(c)
              EXCEPT !.pendingGen[<<repoName, moduleIndex>>] = @ + 1]
      ELSE startSession(c, challenges[1], repoName, moduleIndex)

challengesGenerated_KeepSession(c, repoName, moduleIndex, challenges) ==
  IF Len(challenges) > 0
  THEN startSession([c EXCEPT !.challengeCache =
                        cacheChallenges(@, repoName, moduleIndex, challenges, c.now)],
                    challenges, repoName, moduleIndex)
  ELSE [c EXCEPT !.modal.display = FALSE]

\* showChallengeModal after generateChallenges resolved
challengesGenerated(c, repoName, moduleIndex, challenges) ==
  LET c1 == IF Len(challenges) > 0
            THEN [c EXCEPT !.challengeCache =
                    cacheChallenges(@, repoName, moduleIndex, challenges, c.now)]
            ELSE c
  IN  IF Len(challenges) = 0 THEN hideChallengeModal(c1)
      ELSE startSession(c1, challenges, repoName, moduleIndex)

\* showChallengeModal after generateChallenges rejected
generationFailed(c) == hideChallengeModal(c)

saveModuleCompletion(c, repoName, moduleIndex, completed) ==
  [c EXCEPT !.moduleCompletion =
     IF completed THEN @ \cup {<<repoName, moduleIndex>>}
     ELSE @ \ {<<repoName, moduleIndex>>}]

\* change handler of a .module-checkbox
moduleChange(c, repoName, moduleIndex, checked) ==
  LET c1 == saveModuleCompletion(c, repoName, moduleIndex, checked)
  IN  IF checked THEN showChallengeModal(c1, repoName, moduleIndex) ELSE c1

\* The same handlers when localStorage.setItem throws (quota exceeded).
\* saveUserProgress, cacheChallenges and saveModuleCompletion have no try: the
\* exception unwinds their callers up to the nearest catch.

\* addXP throws before results.push and showAnswerFeedback; a skip writes nothing
handleChallengeAnswerQuota(c, selectedAnswer) ==
  IF c.challengeModalState = None \/ selectedAnswer = SkipAnswer
  THEN handleChallengeAnswer(c, selectedAnswer)
  ELSE c

\* completeChallengeSet throws before modal.innerHTML is assigned
showChallengeResultsQuota(c) == c

nextChallengeQuota(c) ==
  IF c.modal.isLast THEN showChallengeResultsQuota(c) ELSE nextChallenge(c)

\* cacheChallenges throws inside the try of showChallengeModal: its catch
\* hides the modal and returns
challengesGeneratedQuota(c, repoName, moduleIndex, challenges) ==
  IF Len(challenges) > 0 THEN hideChallengeModal(c)
  ELSE challengesGenerated(c, repoName, moduleIndex, challenges)

\* saveModuleCompletion throws at the start of the change handler
moduleChangeQuota(c, repoName, moduleIndex, checked) == c

rerenderHeader_ThroughStore(w) == setState(w, <<>>, FALSE)

\* header.outerHTML = renderHeader(); attachHeaderListeners()
rerenderHeader(w) ==
  [w EXCEPT !.dom.pathBtn =
              Markup(w.state, w.tab, w.expandedFolders, savedPaths(w.pathStore)).pathBtn,
            !.dom.back = IF getState(w).view = "repo" THEN "header" ELSE "none"]

(***************************************************************************)
(* Repository URLs (services/github.ts).  The text of a URL is a sequence  *)
(* of lexemes; a scheme appears only at the start of the texts used.       *)
(***************************************************************************)

NoText == <<>>
UrlA == <<"https://", "github.com", "/", "o", "/", "A">>
UrlB == <<"https://", "github.com", "/", "o", "/", "B">>
UrlAGit == <<" ", "http://", "www.", "github.com", "/", "o", "/", "A", ".git", "/", " ">>

\* What a user types or a repo card carries.
Urls ==
  { NoText, <<" ">>, <<"not-a-url">>, UrlA, UrlB, UrlAGit,
    <<"github.com", "/", "o", "/", "A">>,
    <<"https://", "gitlab.com", "/", "o", "/", "A">>,
    <<"https://", "github.com", "/", "o">>,
    <<"https://", "github.com", "/", "o", "/", "B", "/", "tree">> }

\* Lexemes made of characters of [\w.-] only, and lexemes containing a slash.
NameTokens == {"www.", "github.com", "gitlab.com", "o", "A", "B", ".git", "not-a-url", "tree"}
SlashTokens == {"/", "http://", "https://"}

RECURSIVE TrimLeft(_)
TrimLeft(t) == IF t # <<>> /\ Head(t) = " " THEN TrimLeft(Tail(t)) ELSE t

RECURSIVE TrimRight(_)
TrimRight(t) ==
  IF t # <<>> /\ t[Len(t)] = " " THEN TrimRight(SubSeq(t, 1, Len(t) - 1)) ELSE t

\* String.prototype.trim
trim(t) == TrimRight(TrimLeft(t))

\* The longest prefix of t made of lexemes of S, resp. of lexemes not in S.
RECURSIVE RunIn(_, _)
RunIn(t, S) == IF t # <<>> /\ Head(t) \in S THEN <<Head(t)>> \o RunIn(Tail(t), S) ELSE <<>>

RECURSIVE RunNotIn(_, _)
RunNotIn(t, S) ==
  IF t # <<>> /\ Head(t) \notin S THEN <<Head(t)>> \o RunNotIn(Tail(t), S) ELSE <<>>

\* Steps of a match: rest is Some(unread text) or None when the match failed.
Expect(rest, S) ==
  IF rest # None /\ rest[1] # <<>> /\ Head(rest[1]) \in S THEN Some(Tail(rest[1])) ELSE None
Maybe(rest, S) ==
  IF rest # None /\ rest[1] # <<>> /\ Head(rest[1]) \in S THEN Some(Tail(rest[1])) ELSE rest
ExpectName(rest) ==
  IF rest # None /\ RunIn(rest[1], NameTokens) # <<>>
  THEN Some(Drop(rest[1], Len(RunIn(rest[1], NameTokens)))) ELSE None

\* /^https?:\/\/(www\.)?github\.com\/[\w.-]+\/[\w.-]+\/?$/.test(url.trim())
isValidGitHubUrl(url) ==
  LET r1 == Expect(Some(trim(url)), {"http://", "https://"})
      r2 == Expect(Maybe(r1, {"www."}), {"github.com"})
      r3 == ExpectName(Expect(r2, {"/"}))
      r4 == ExpectName(Expect(r3, {"/"}))
  IN  Maybe(r4, {"/"}) = Some(<<>>)

\* The match of /github\.com\/([^/]+)\/([^/]+)/ at the start of u, or None.
MatchAt(u) ==
  LET r1 == Expect(Expect(Some(u), {"github.com"}), {"/"})
      owner == IF r1 = None THEN <<>> ELSE RunNotIn(r1[1], SlashTokens)
      r2 == IF owner = <<>> THEN None ELSE Expect(Some(Drop(r1[1], Len(owner))), {"/"})
      repo == IF r2 = None THEN <<>> ELSE RunNotIn(r2[1], SlashTokens)
  IN  IF repo = <<>> THEN None ELSE Some([owner |-> owner, repo |-> repo])

RECURSIVE FirstMatch(_)
FirstMatch(u) ==
  IF u = <<>> THEN None
  ELSE IF MatchAt(u) # None THEN MatchAt(u) ELSE FirstMatch(Tail(u))

\* repo.replace(/\.git$/, '')
StripGit(repo) ==
  IF repo[Len(repo)] = ".git" THEN SubSeq(repo, 1, Len(repo) - 1) ELSE repo

parseGitHubUrl(url) ==
  LET match == FirstMatch(trim(url))
  IN  IF match # None
      THEN Some([owner |-> match[1].owner, repo |-> StripGit(match[1].repo)])
      ELSE None

\* The repository that owner/repo names at the API.
RepoId(parsed) == CHOOSE r \in Repos : parsed.owner = <<"o">> /\ parsed.repo = <<r>>

(***************************************************************************)
(* The store driven through its exported API by a caller with passive      *)
(* test listeners.                                                         *)
(***************************************************************************)

TestListeners == {"L1", "L2"}

\* The values a caller passes for each field.
TestStates ==
  [ view : {"landing", "repo"}, repoUrl : {NoText, UrlA},
    loading : BOOLEAN, error : {None, Some("e")},
    currentRepo : {None, Some("A")}, fileTree : {None, Some(TreeA)},
    selectedFile : {None, Some(File("a.ts", 10))} ]

\* The field combinations passed: every single field, and the combinations the
\* action helpers use.
UpdateShapes ==
  {{}} \cup {{f} : f \in Fields}
  \cup {{"loading", "error"}, {"repoUrl", "error"},
        {"currentRepo", "fileTree", "loading", "error", "view"}}

Restrict(r, D) == [f \in D |-> r[f]]

TestUpdates == {Restrict(r, D) : r \in TestStates, D \in UpdateShapes}

InitView ==
  /\ expandedFolders = {}
  /\ pathStore = NoPaths
  /\ simulation = None
  /\ running = {}
  /\ attached = {}
  /\ graph = NoGraph
  /\ infoBar = None
  /\ pendingFetch = [r \in Repos |-> 0]
  /\ pendingPath = {}
  /\ notified = <<>>
  /\ events = <<>>
  /\ renders = 0
  /\ orphaned = {}
  /\ lastOp = Op("init")
  /\ InitChallenge
  /\ InitChatState

\* The store module alone: no subscriber yet, nothing rendered.
InitStore ==
  /\ state = initialState
  /\ listeners = <<>>
  /\ tab = "tree"
  /\ dom = EmptyDom
  /\ InitView

Subscribe(l) ==
  /\ UNCHANGED asyncVars
  /\ Assign(subscribe(World, l))
  /\ lastOp' = [Op("subscribe") EXCEPT !.arg = l]

Unsubscribe(l) ==
  /\ UNCHANGED asyncVars
  /\ Assign(unsubscribe(World, l))
  /\ lastOp' = [Op("unsubscribe") EXCEPT !.arg = l]

SetState(updates, silent) ==
  /\ UNCHANGED asyncVars
  /\ Assign(setState(World, updates, silent))
  /\ lastOp' = [Op("setState") EXCEPT !.silent = silent, !.updates = updates]

ResetState ==
  /\ UNCHANGED asyncVars
  /\ Assign(resetState(World))
  /\ lastOp' = [Op("resetState") EXCEPT !.again = (lastOp.op = "resetState")]

NextStore ==
  \/ \E l \in TestListeners : Subscribe(l)
  \/ \E l \in TestListeners : Unsubscribe(l)
  \/ \E u \in TestUpdates, silent \in BOOLEAN : SetState(u, silent)
  \/ ResetState

SpecStore == InitStore /\ [][NextStore]_vars

(***************************************************************************)
(* The store driven through its action helpers and resetState only, with   *)
(* the arguments their types admit.                                        *)
(***************************************************************************)

CallSetLoading(loading) ==
  /\ UNCHANGED asyncVars
  /\ Assign(setLoading(World, loading))
  /\ lastOp' = Op("setLoading")

CallSetError(error) ==
  /\ UNCHANGED asyncVars
  /\ Assign(setError(World, error))
  /\ lastOp' = Op("setError")

CallSetRepoUrl(repoUrl, silent) ==
  /\ UNCHANGED asyncVars
  /\ Assign(setRepoUrl(World, repoUrl, silent))
  /\ lastOp' = [Op("setRepoUrl") EXCEPT !.silent = silent]

CallSetRepoData(r) ==
  /\ UNCHANGED asyncVars
  /\ Assign(setRepoData(World, r, TreeOfRepo(r)))
  /\ lastOp' = [Op("setRepoData") EXCEPT !.arg = Some(r)]

CallSelectFile(file, silent) ==
  /\ UNCHANGED asyncVars
  /\ Assign(selectFile(World, file, silent))
  /\ lastOp' = [Op("selectFile") EXCEPT !.silent = silent]

CallGoToLanding ==
  /\ UNCHANGED asyncVars
  /\ Assign(goToLanding(World))
  /\ lastOp' = Op("goToLanding")

NextHelpers ==
  \/ \E l \in TestListeners : Subscribe(l)
  \/ \E loading \in BOOLEAN : CallSetLoading(loading)
  \/ CallSetError("e")
  \/ \E repoUrl \in {NoText, UrlA}, silent \in BOOLEAN : CallSetRepoUrl(repoUrl, silent)
  \/ \E r \in Repos : CallSetRepoData(r)
  \/ \E file \in {None, Some(File("a.ts", 30))}, silent \in BOOLEAN : CallSelectFile(file, silent)
  \/ CallGoToLanding
  \/ ResetState

SpecHelpers == InitStore /\ [][NextHelpers]_vars

(***************************************************************************)
(* The application (main.ts): one action per event handler or completion   *)
(***************************************************************************)

MaxPending == 2

\* Whether handleExplore gets as far as fetchRepository.
exploreStarts(st) ==
  LET url == trim(st.repoUrl)
  IN  url # <<>> /\ isValidGitHubUrl(url) /\ parseGitHubUrl(url) # None

handleExplore_NoValidation(w) ==
  IF parseGitHubUrl(trim(getState(w).repoUrl)) = None
  THEN setError(w, "Could not parse repository URL")
  ELSE setLoading(w, TRUE)

\* handleExplore up to its await.
handleExplore(w) ==
  LET url == trim(getState(w).repoUrl)
  IN  IF url = <<>> THEN setError(w, "Please enter a GitHub repository URL")
      ELSE IF ~isValidGitHubUrl(url)
        THEN setError(w, "Invalid GitHub URL. Format: https://github.com/owner/repo")
      ELSE IF parseGitHubUrl(url) = None
        THEN setError(w, "Could not parse repository URL")
      ELSE setLoading(w, TRUE)

PendingTotal == pendingFetch["A"] + pendingFetch["B"]

StartFetch(st) ==
  IF exploreStarts(st)
  THEN /\ PendingTotal < MaxPending
       /\ pendingFetch' = [pendingFetch EXCEPT ![RepoId(parseGitHubUrl(trim(st.repoUrl))[1])] = @ + 1]
  ELSE pendingFetch' = pendingFetch

InitApp ==
  /\ state = initialState
  /\ listeners = <<"render">>
  /\ tab \in {"tree", "graph"}
  /\ dom = Markup(initialState, tab, {}, {})
  /\ InitView

\* input listener of #repo-url-input
InputUrl(text) ==
  /\ dom.main = "landing"
  /\ Assign(setRepoUrl(World, text, TRUE))
  /\ lastOp' = [Op("input") EXCEPT !.arg = Some(text)]
  /\ UNCHANGED asyncVars

\* #explore-btn click, or Enter in the input
Explore ==
  /\ dom.main = "landing"
  /\ Assign(handleExplore(World))
  /\ StartFetch(state)
  /\ lastOp' = Op("explore")
  /\ UNCHANGED pendingPath

\* .repo-card click
RepoCardClick(url) ==
  /\ dom.main = "landing"
  /\ LET w == setRepoUrl(World, url, TRUE)
     IN  /\ Assign(handleExplore(w))
         /\ StartFetch(w.state)
  /\ lastOp' = [Op("repoCard") EXCEPT !.arg = Some(url)]
  /\ UNCHANGED pendingPath

FetchSuccess_IfCurrent(r) ==
  /\ pendingFetch[r] > 0
  /\ pendingFetch' = [pendingFetch EXCEPT ![r] = @ - 1]
  /\ Assign(IF /\ state.view = "landing"
               /\ exploreStarts(state)
               /\ RepoId(parseGitHubUrl(trim(state.repoUrl))[1]) = r
            THEN setRepoData(World, r, TreeOfRepo(r))
            ELSE World)
  /\ lastOp' = [Op("fetchSuccess") EXCEPT !.arg = Some(r)]
  /\ UNCHANGED pendingPath

\* fetchRepository resolved: handleExplore continues after its await
FetchSuccess(r) ==
  /\ pendingFetch[r] > 0
  /\ pendingFetch' = [pendingFetch EXCEPT ![r] = @ - 1]
  /\ Assign(setRepoData(World, r, TreeOfRepo(r)))
  /\ lastOp' = [Op("fetchSuccess") EXCEPT !.arg = Some(r)]
  /\ UNCHANGED pendingPath

\* fetchRepository rejected
FetchFail(r) ==
  /\ pendingFetch[r] > 0
  /\ pendingFetch' = [pendingFetch EXCEPT ![r] = @ - 1]
  /\ Assign(setError(World, "Repository not found"))
  /\ lastOp' = [Op("fetchFail") EXCEPT !.arg = Some(r)]
  /\ UNCHANGED pendingPath

tabClick(w, t) == render([cleanupGraph(w) EXCEPT !.tab = t])

\* .tab-btn click
TabClick(t) ==
  /\ dom.view = "repo" /\ dom.main \notin {"empty"}
  /\ Assign(tabClick(World, t))
  /\ lastOp' = [Op("tab") EXCEPT !.arg = Some(t)]
  /\ UNCHANGED asyncVars

\* The handler attachEventListeners attaches clears the chat; the one
\* attachHeaderListeners attaches does not.
backToHome(w) ==
  IF w.dom.back = "header" THEN goToLanding(cleanupGraph(w))
  ELSE goToLanding(clearChatHistory(cleanupGraph(w)))

\* #back-to-home click
BackToHome ==
  /\ dom.view = "repo"
  /\ Assign(backToHome(World))
  /\ lastOp' = Op("back")
  /\ UNCHANGED asyncVars

\* 'repox:rerender' listener of main.ts
onRerender(w) == render([w EXCEPT !.events = Append(@, [type |-> "repox:rerender", file |-> None])])

\* click listener of #file-tree, on the element of node n
treeClick(w, n) ==
  IF n.type = "folder" THEN onRerender(toggleFolder(w, n.path))
  ELSE LET fileNode == findNodeByPath(getState(w).fileTree, n.path)
       IN  IF fileNode # None THEN selectFile(w, fileNode, FALSE) ELSE w

TreeClick(n) ==
  /\ n \in dom.nodes
  /\ Assign(treeClick(World, n))
  /\ lastOp' = [Op("treeClick") EXCEPT !.arg = Some(n)]
  /\ UNCHANGED asyncVars

graphNodeClick_Notify(w, d) ==
  LET fileNode == findNodeByPath(getState(w).fileTree, d.path)
  IN  IF fileNode # None /\ fileNode[1].type = "file"
      THEN updateFilePanel(selectFile(w, fileNode, FALSE), fileNode[1])
      ELSE w

\* click handler of a graph node with datum d
graphNodeClick(w, d) ==
  LET fileNode == findNodeByPath(getState(w).fileTree, d.path)
  IN  IF fileNode # None /\ fileNode[1].type = "file"
      THEN updateFilePanel(selectFile(w, fileNode, TRUE), fileNode[1])
      ELSE w

GraphNodeClick(d) ==
  /\ simulation # None /\ simulation[1] \in attached
  /\ d \in Range(graph.nodes)
  /\ Assign(graphNodeClick(World, d))
  /\ lastOp' = [Op("graphClick") EXCEPT !.arg = Some(d)]
  /\ UNCHANGED asyncVars

showLearningPath(w) == render(selectFile(w, None, TRUE))

\* #show-learning-path-btn click
ShowLearningPath ==
  /\ dom.pathBtn
  /\ Assign(showLearningPath(World))
  /\ lastOp' = Op("showPath")
  /\ UNCHANGED asyncVars

\* #generate-path-btn click with no saved path: the request is sent
GeneratePath ==
  /\ dom.main = "welcome"
  /\ state.currentRepo # None /\ state.fileTree # None
  /\ state.currentRepo[1] \notin savedPaths(pathStore)
  /\ state.currentRepo[1] \notin pendingPath
  /\ pendingPath' = pendingPath \cup {state.currentRepo[1]}
  /\ Assign(World)
  /\ lastOp' = Op("generatePath")
  /\ UNCHANGED pendingFetch

\* generateLearningPath resolved: saveLearningPath(repo.fullName, learningPath)
LearningPathResponse(r) ==
  /\ r \in pendingPath
  /\ pendingPath' = pendingPath \ {r}
  /\ Assign([World EXCEPT !.pathStore = saveLearningPath(@, r, GeneratedPath)])
  /\ lastOp' = [Op("pathSaved") EXCEPT !.arg = Some(r)]
  /\ UNCHANGED pendingFetch

NextApp ==
  \/ \E text \in Urls : InputUrl(text)
  \/ Explore
  \/ \E url \in {UrlA, UrlB} : RepoCardClick(url)
  \/ \E r \in Repos : FetchSuccess(r)
  \/ \E r \in Repos : FetchFail(r)
  \/ \E t \in {"tree", "graph"} : TabClick(t)
  \/ BackToHome
  \/ \E n \in dom.nodes : TreeClick(n)
  \/ \E d \in Range(graph.nodes) : GraphNodeClick(d)
  \/ ShowLearningPath
  \/ GeneratePath
  \/ \E r \in Repos : LearningPathResponse(r)

SpecApp == InitApp /\ [][NextApp]_vars

(***************************************************************************)
(* The challenge modal over a loaded repository whose learning path is     *)
(* displayed: one action per handler of the modal, per completion of a     *)
(* generation request, and the clock.                                      *)
(***************************************************************************)

MaxGen == 2
MaxAnswers == 2
MaxCompleted == 2
MaxTicks == 2

LoadedA ==
  [initialState EXCEPT !.view = "repo", !.repoUrl = UrlA, !.currentRepo = Some("A"),
                       !.fileTree = Some(TreeA)]

\* Repository A loaded and rendered on the tree tab, its learning path saved.
InitLoadedA ==
  /\ state = LoadedA
  /\ listeners = <<"render">>
  /\ tab = "tree"
  /\ expandedFolders = {""}
  /\ pathStore = saveLearningPath(NoPaths, "A", GeneratedPath)
  /\ dom = Markup(LoadedA, "tree", {""}, {"A"})
  /\ simulation = None
  /\ running = {}
  /\ attached = {}
  /\ graph = NoGraph
  /\ infoBar = None
  /\ pendingFetch = [r \in Repos |-> 0]
  /\ pendingPath = {}
  /\ notified = <<>>
  /\ events = <<>>
  /\ renders = 0
  /\ orphaned = {}
  /\ lastOp = Op("init")
  /\ input = None
  /\ output = None
  /\ chatState = NoChat
  /\ sidebarOpen = FALSE
  /\ fab = TRUE
  /\ pendingChat = FALSE

InitChallengeApp == InitLoadedA /\ InitChallenge

PendingGenTotal ==
  LET RECURSIVE Sum(_)
      Sum(S) == IF S = {} THEN 0
                ELSE LET k == CHOOSE x \in S : TRUE IN pendingGen[k] + Sum(S \ {k})
  IN  Sum(CacheKeys)

\* The learning path of the current repository is on the page.
PathShown ==
  /\ dom.view = "repo" /\ dom.main = "welcome"
  /\ state.currentRepo # None /\ state.currentRepo[1] \in savedPaths(pathStore)

ModuleChange(i) ==
  /\ PathShown
  /\ PendingGenTotal < MaxGen
  /\ LET r == state.currentRepo[1]
     IN  AssignChallenge(moduleChange(ChallengeWorld, r, i, <<r, i>> \notin moduleCompletion))
  /\ lastOp' = [Op("moduleChange") EXCEPT !.arg = Some(i)]
  /\ AssignView(World)
  /\ UNCHANGED asyncVars

GenerationDone(k, challenges) ==
  /\ pendingGen[k] > 0
  /\ AssignChallenge(challengesGenerated(
       [ChallengeWorld EXCEPT !.pendingGen[k] = @ - 1], k[1], k[2], challenges))
  /\ lastOp' = [Op(IF challenges = <<>> THEN "genEmpty" ELSE "genDone") EXCEPT !.arg = Some(k)]
  /\ AssignView(World)
  /\ UNCHANGED asyncVars

GenerationFailed(k) ==
  /\ pendingGen[k] > 0
  /\ AssignChallenge(generationFailed([ChallengeWorld EXCEPT !.pendingGen[k] = @ - 1]))
  /\ lastOp' = [Op("genFail") EXCEPT !.arg = Some(k)]
  /\ AssignView(World)
  /\ UNCHANGED asyncVars

QuestionShown == modal.display /\ modal.content = "question"

\* click on the button of option n of the question shown
OptionClick(n) ==
  /\ QuestionShown
  /\ getUserProgress(progressStore).totalAnswers < MaxAnswers
  /\ LET s == challengeModalState[1]
         options == s.challenges[s.currentIndex + 1].options
     IN  /\ n \in DOMAIN options
         /\ AssignChallenge(handleChallengeAnswer(ChallengeWorld, datasetAnswer(options[n])))
  /\ lastOp' = [Op("answer") EXCEPT !.arg = Some(n)]
  /\ AssignView(World)
  /\ UNCHANGED asyncVars

\* click on #skip-challenge-btn
SkipClick ==
  /\ QuestionShown
  /\ AssignChallenge(handleChallengeAnswer(ChallengeWorld, SkipAnswer))
  /\ lastOp' = Op("skip")
  /\ AssignView(World)
  /\ UNCHANGED asyncVars

\* click on #next-challenge-btn
NextClick ==
  /\ modal.display /\ modal.content = "feedback"
  /\ modal.isLast => getUserProgress(progressStore).challengesCompleted < MaxCompleted
  /\ AssignChallenge(nextChallenge(ChallengeWorld))
  /\ lastOp' = Op("next")
  /\ AssignView(World)
  /\ UNCHANGED asyncVars

\* click on #close-challenge-btn
CloseClick ==
  /\ modal.display /\ modal.content = "results"
  /\ AssignChallenge(hideChallengeModal(ChallengeWorld))
  /\ lastOp' = Op("dismiss")
  /\ AssignView(rerenderHeader(World))
  /\ UNCHANGED asyncVars

\* Twelve hours pass.
Tick ==
  /\ now < 12 * MaxTicks
  /\ AssignChallenge([ChallengeWorld EXCEPT !.now = @ + 12])
  /\ lastOp' = Op("tick")
  /\ AssignView(World)
  /\ UNCHANGED asyncVars

NextChallenge ==
  \/ \E i \in Modules : ModuleChange(i)
  \/ \E k \in CacheKeys : \E cs \in ChallengeSets(k[2]) \cup {<<>>} : GenerationDone(k, cs)
  \/ \E k \in CacheKeys : GenerationFailed(k)
  \/ \E n \in 1..2 : OptionClick(n)
  \/ SkipClick
  \/ NextClick
  \/ CloseClick
  \/ Tick

SpecChallenge == InitChallengeApp /\ [][NextChallenge]_vars

(***************************************************************************)
(* The challenge modal with a durable store that may refuse a write: each  *)
(* handler that writes has a second action in which setItem throws.        *)
(***************************************************************************)

ModuleChangeQuota(i) ==
  /\ PathShown
  /\ LET r == state.currentRepo[1]
     IN  AssignChallenge(moduleChangeQuota(ChallengeWorld, r, i, <<r, i>> \notin moduleCompletion))
  /\ lastOp' = [Op("moduleChangeQuota") EXCEPT !.arg = Some(i)]
  /\ AssignView(World)
  /\ UNCHANGED asyncVars

GenerationDoneQuota(k, challenges) ==
  /\ pendingGen[k] > 0
  /\ AssignChallenge(challengesGeneratedQuota(
       [ChallengeWorld EXCEPT !.pendingGen[k] = @ - 1], k[1], k[2], challenges))
  /\ lastOp' = [Op("genDoneQuota") EXCEPT !.arg = Some(k)]
  /\ AssignView(World)
  /\ UNCHANGED asyncVars

OptionClickQuota(n) ==
  /\ QuestionShown
  /\ LET s == challengeModalState[1]
         options == s.challenges[s.currentIndex + 1].options
     IN  /\ n \in DOMAIN options
         /\ AssignChallenge(handleChallengeAnswerQuota(ChallengeWorld, datasetAnswer(options[n])))
  /\ lastOp' = [Op("answerQuota") EXCEPT !.arg = Some(n)]
  /\ AssignView(World)
  /\ UNCHANGED asyncVars

NextClickQuota ==
  /\ modal.display /\ modal.content = "feedback"
  /\ modal.isLast
  /\ AssignChallenge(nextChallengeQuota(ChallengeWorld))
  /\ lastOp' = Op("nextQuota")
  /\ AssignView(World)
  /\ UNCHANGED asyncVars

NextQuota ==
  \/ \E i \in Modules : ModuleChange(i)
  \/ \E k \in CacheKeys : \E cs \in ChallengeSets(k[2]) \cup {<<>>} : GenerationDone(k, cs)
  \/ \E n \in 1..2 : OptionClick(n)
  \/ SkipClick
  \/ NextClick
  \/ CloseClick
  \/ \E i \in Modules : ModuleChangeQuota(i)
  \/ \E k \in CacheKeys : \E cs \in ChallengeSets(k[2]) : GenerationDoneQuota(k, cs)
  \/ \E n \in 1..2 : OptionClickQuota(n)
  \/ NextClickQuota

SpecQuota == InitChallengeApp /\ [][NextQuota]_vars

(***************************************************************************)
(* The challenge modal next to full-page renders: tab changes, leaving the *)
(* repository and loading it again while a session may be live.            *)
(***************************************************************************)

NextOverlay ==
  \/ \E i \in Modules : ModuleChange(i)
  \/ \E k \in CacheKeys : \E cs \in ChallengeSets(k[2]) \cup {<<>>} : GenerationDone(k, cs)
  \/ \E k \in CacheKeys : GenerationFailed(k)
  \/ \E n \in 1..2 : OptionClick(n)
  \/ SkipClick
  \/ NextClick
  \/ CloseClick
  \/ \E t \in {"tree", "graph"} : TabClick(t)
  \/ BackToHome
  \/ RepoCardClick(UrlA)
  \/ FetchSuccess("A")

SpecOverlay == InitChallengeApp /\ [][NextOverlay]_vars

(***************************************************************************)
(* The challenge modal over lists whose points are whatever integer the    *)
(* generator answers with: the response schema (worker/src/index.ts) types *)
(* points as an integer and nothing on the way to addXP checks its sign.   *)
(***************************************************************************)

Q3 ==
  [ id |-> "q3", options |-> << <<"x">>, <<"y">> >>,
    correctAnswer |-> <<"x">>, points |-> 0 - 5 ]

GeneratedLists == { <<Q1, Q2>>, <<Q3, Q1>>, <<Q3>> }

NextProgress ==
  \/ \E i \in Modules : ModuleChange(i)
  \/ \E k \in CacheKeys : \E cs \in GeneratedLists : GenerationDone(k, cs)
  \/ \E n \in 1..2 : OptionClick(n)
  \/ SkipClick
  \/ NextClick
  \/ CloseClick

SpecProgress == InitChallengeApp /\ [][NextProgress]_vars

(***************************************************************************)
(* The two writers of the progress record called in any order, from the    *)
(* default progress (nothing stored).                                      *)
(***************************************************************************)

MaxXPCalls == 4

AwardedPoints == {0, 10, 25}

CallAddXP(points, wasCorrect) ==
  /\ getUserProgress(progressStore).totalAnswers < MaxXPCalls
  /\ AssignChallenge([ChallengeWorld EXCEPT !.progressStore = addXP(@, points, wasCorrect, now)])
  /\ lastOp' = Op("addXP")
  /\ AssignView(World)
  /\ UNCHANGED asyncVars

CallCompleteChallengeSet ==
  /\ getUserProgress(progressStore).challengesCompleted < MaxCompleted
  /\ AssignChallenge([ChallengeWorld EXCEPT !.progressStore = completeChallengeSet(@)])
  /\ lastOp' = Op("completeChallengeSet")
  /\ AssignView(World)
  /\ UNCHANGED asyncVars

NextStreak ==
  \/ \E points \in AwardedPoints : \E wasCorrect \in BOOLEAN : CallAddXP(points, wasCorrect)
  \/ CallCompleteChallengeSet
  \/ Tick

SpecStreak == InitChallengeApp /\ [][NextStreak]_vars

(***************************************************************************)
(* The chat sidebar (main.ts) next to navigation: the repository is left   *)
(* with either back-to-home handler and entered again, while a chat        *)
(* request may be in flight.                                               *)
(***************************************************************************)

MaxMessages == 4

toggleChatSidebar(w) ==
  LET w1 == [w EXCEPT !.chatState.isOpen = ~@]
  IN  IF w1.chatState.isOpen THEN renderChatSidebar(w1) ELSE hideChatSidebar(w1)

handleChatSend_WhileLoading(w, message) ==
  IF message = "" THEN w
  ELSE renderChatSidebar(
         [w EXCEPT !.chatState.messages = Append(@, [role |-> "user", content |-> message]),
                   !.chatState.isLoading = TRUE,
                   !.pendingChat = TRUE])

\* handleChatSend up to its await; message is the trimmed input value.
handleChatSend(w, message) ==
  IF message = "" \/ w.chatState.isLoading THEN w
  ELSE renderChatSidebar(
         [w EXCEPT !.chatState.messages = Append(@, [role |-> "user", content |-> message]),
                   !.chatState.isLoading = TRUE,
                   !.pendingChat = TRUE])

\* handleChatSend after chat() settled: the reply or the apology is pushed,
\* then the finally block runs.
chatSettled(w, content) ==
  renderChatSidebar(
    [w EXCEPT !.chatState.messages = Append(@, [role |-> "assistant", content |-> content]),
              !.chatState.isLoading = FALSE,
              !.pendingChat = FALSE])

\* The challenge modal showing the results of a one-question session, as the
\* handlers leave it.
ResultsShown ==
  LET c0 == [ challengeModalState |-> None, modal |-> NoModal,
              pendingGen |-> [k \in CacheKeys |-> 0], progressStore |-> None,
              challengeCache |-> [k \in CacheKeys |-> None], moduleCompletion |-> {},
              now |-> 0, sessionStart |-> 0 ]
      c1 == moduleChange(c0, "A", 0, TRUE)
      c2 == challengesGenerated([c1 EXCEPT !.pendingGen[<<"A", 0>>] = @ - 1], "A", 0, <<Q1>>)
      c3 == handleChallengeAnswer(c2, datasetAnswer(Q1.options[2]))
  IN  nextChallenge(c3)

InitChat ==
  /\ InitLoadedA
  /\ \/ InitChallenge
     \/ /\ challengeModalState = ResultsShown.challengeModalState
        /\ modal = ResultsShown.modal
        /\ pendingGen = ResultsShown.pendingGen
        /\ progressStore = ResultsShown.progressStore
        /\ challengeCache = ResultsShown.challengeCache
        /\ moduleCompletion = ResultsShown.moduleCompletion
        /\ now = ResultsShown.now
        /\ sessionStart = ResultsShown.sessionStart

\* click on #chat-fab or on #close-chat-btn
ChatToggle ==
  /\ fab \/ sidebarOpen
  /\ Assign(toggleChatSidebar(World))
  /\ lastOp' = Op("chatToggle")
  /\ UNCHANGED asyncVars

\* Enter in #chat-input, or a click on #chat-send-btn or on a suggestion
ChatSend(message) ==
  /\ sidebarOpen
  /\ Len(chatState.messages) + 2 <= MaxMessages
  /\ Assign(handleChatSend(World, message))
  /\ lastOp' = [Op("chatSend") EXCEPT !.arg = Some(message)]
  /\ UNCHANGED asyncVars

\* chat() resolved ("reply") or rejected ("error")
ChatSettled(content) ==
  /\ pendingChat
  /\ Assign(chatSettled(World, content))
  /\ lastOp' = [Op("chatSettled") EXCEPT !.arg = Some(content)]
  /\ UNCHANGED asyncVars

NextChat ==
  \/ ChatToggle
  \/ \E message \in {"", "question"} : ChatSend(message)
  \/ \E content \in {"reply", "error"} : ChatSettled(content)
  \/ BackToHome
  \/ RepoCardClick(UrlA)
  \/ FetchSuccess("A")
  \/ FetchFail("A")
  \/ CloseClick

SpecChat == InitChat /\ [][NextChat]_vars

\* chat() returns the promise of one fetch and its body: it resolves or it
\* rejects, and the continuation of handleChatSend then runs.
SpecChatLive == SpecChat /\ WF_vars(\E content \in {"reply", "error"} : ChatSettled(content))

(***************************************************************************)
(* treeToGraph (Graph.ts) applied to file trees of several shapes and to   *)
(* several node bounds.                                                    *)
(***************************************************************************)

MaxNodeBound == 4

FolderPaths == <<"a", "a/a", "a/a/a", "a/a/a/a", "a/a/a/a/a">>
FilePaths == <<"f", "a/f", "a/a/f", "a/a/a/f", "a/a/a/a/f", "a/a/a/a/a/f">>

\* The folder at depth d of a chain of n nested folders under the root, in
\* which the folders at the depths of F hold a file.
RECURSIVE ChainTree(_, _, _, _)
ChainTree(d, n, F, filesFirst) ==
  LET file == IF d \in F THEN <<File(FilePaths[d + 1], 1)>> ELSE <<>>
      sub == IF d < n THEN <<ChainTree(d + 1, n, F, filesFirst)>> ELSE <<>>
  IN  Folder(IF d = 0 THEN "" ELSE FolderPaths[d],
             IF filesFirst THEN file \o sub ELSE sub \o file)

TestTrees ==
  { ChainTree(0, n, F, b) : n \in 0..Len(FolderPaths), F \in SUBSET (0..Len(FolderPaths)),
                            b \in BOOLEAN }

NodeBounds == (1..MaxNodeBound) \cup {GraphMaxNodes}

RECURSIVE TreeSize(_)
RECURSIVE ForestSize(_)
TreeSize(node) == 1 + ForestSize(node.children)
ForestSize(children) ==
  IF children = <<>> THEN 0 ELSE TreeSize(Head(children)) + ForestSize(Tail(children))

\* The parent-child pairs of a file tree, by graph id.
RECURSIVE TreeEdges(_)
RECURSIVE ForestEdges(_, _)
NodeId(node) == IF node.path = "" THEN "root" ELSE node.path
TreeEdges(node) == ForestEdges(NodeId(node), node.children)
ForestEdges(parentId, children) ==
  IF children = <<>> THEN {}
  ELSE {<<parentId, NodeId(Head(children))>>} \cup TreeEdges(Head(children))
         \cup ForestEdges(parentId, Tail(children))

InitTreeToGraph ==
  /\ state = initialState
  /\ listeners = <<>>
  /\ tab = "tree"
  /\ dom = EmptyDom
  /\ expandedFolders = {}
  /\ pathStore = NoPaths
  /\ simulation = None
  /\ running = {}
  /\ attached = {}
  /\ graph = NoGraph
  /\ infoBar = None
  /\ pendingFetch = [r \in Repos |-> 0]
  /\ pendingPath = {}
  /\ notified = <<>>
  /\ events = <<>>
  /\ renders = 0
  /\ orphaned = {}
  /\ lastOp = Op("init")
  /\ InitChallenge
  /\ chatState = NoChat
  /\ sidebarOpen = FALSE
  /\ fab = FALSE
  /\ pendingChat = FALSE
  /\ input \in {Some([tree |-> t, maxNodes |-> k]) : t \in TestTrees, k \in NodeBounds}
  /\ output = None

CallTreeToGraph ==
  /\ output = None
  /\ output' = Some(treeToGraph(input[1].tree, GraphMaxDepth, input[1].maxNodes))
  /\ lastOp' = Op("treeToGraph")
  /\ UNCHANGED <<storeVars, viewVars, asyncVars, notified, events, renders, orphaned,
                 challengeVars, chatVars, input>>

NextTreeToGraph == CallTreeToGraph

SpecTreeToGraph == InitTreeToGraph /\ [][NextTreeToGraph]_vars

(***************************************************************************)
(* cleanupGraph (Graph.ts) called repeatedly, with and without a graph on  *)
(* the page.                                                               *)
(***************************************************************************)

MaxCalls == 2

\* The page after a repository with file tree t was loaded with tab selected.
RepoShown(t, selectedTab) ==
  render([ state |-> [LoadedA EXCEPT !.fileTree = Some(t)], listeners |-> <<"render">>,
           tab |-> selectedTab, expandedFolders |-> {}, pathStore |-> NoPaths,
           simulation |-> None, running |-> {}, attached |-> {}, graph |-> NoGraph,
           dom |-> EmptyDom, infoBar |-> None, chatState |-> NoChat,
           sidebarOpen |-> FALSE, fab |-> FALSE, pendingChat |-> FALSE,
           notified |-> <<>>, events |-> <<>>, renders |-> 0, orphaned |-> {} ])

InitCleanup ==
  /\ input \in {Some([tree |-> t, tab |-> b]) : t \in TestTrees, b \in {"tree", "graph"}}
  /\ output = Some(0)
  /\ LET w == RepoShown(input[1].tree, input[1].tab)
     IN  /\ state = w.state
         /\ listeners = w.listeners
         /\ tab = w.tab
         /\ expandedFolders = w.expandedFolders
         /\ pathStore = w.pathStore
         /\ simulation = w.simulation
         /\ running = w.running
         /\ attached = w.attached
         /\ graph = w.graph
         /\ dom = w.dom
         /\ infoBar = w.infoBar
         /\ chatState = w.chatState
         /\ sidebarOpen = w.sidebarOpen
         /\ fab = w.fab
         /\ pendingChat = w.pendingChat
  /\ pendingFetch = [r \in Repos |-> 0]
  /\ pendingPath = {}
  /\ notified = <<>>
  /\ events = <<>>
  /\ renders = 0
  /\ orphaned = {}
  /\ lastOp = Op("init")
  /\ InitChallenge

CallCleanupGraph ==
  /\ output[1] < MaxCalls
  /\ output' = Some(output[1] + 1)
  /\ AssignView(cleanupGraph(World))
  /\ lastOp' = Op("cleanupGraph")
  /\ UNCHANGED <<asyncVars, challengeVars, input>>

NextCleanup == CallCleanupGraph

SpecCleanup == InitCleanup /\ [][NextCleanup]_vars

(***************************************************************************)
(* The readers of the durable store over the text of the item they read    *)
(* (state/index.ts, services/github.ts, main.ts).  item is None when the   *)
(* key is absent.  A try block evaluates to its value or to Threw.         *)
(***************************************************************************)

JUndefined == <<"undefined">>
Threw == <<"throw">>

Catch_Rethrow(body, fallback) == body

\* try { body } catch { fallback }
Catch(body, fallback) == IF body = Threw THEN fallback ELSE body

\* JSON.parse inside a try block
tryParse(text) == IF parse(text) = None THEN Threw ELSE parse(text)[1]

RECURSIVE GetField(_, _)
GetField(fields, key) ==
  IF fields = <<>> THEN JUndefined
  ELSE IF Head(fields)[1] = key THEN Head(fields)[2]
  ELSE GetField(Tail(fields), key)

\* data.key: a TypeError on null, undefined when there is no such property
Property(data, key) ==
  IF data = Threw \/ data = JNull THEN Threw
  ELSE IF data[1] = "obj" THEN GetField(data[2], key)
  ELSE JUndefined

Keys(fields) == {fields[i][1] : i \in DOMAIN fields}

\* { ...defaults, ...data } for an object or null
Spread(defaults, data) ==
  IF data = Threw THEN Threw
  ELSE IF data[1] # "obj" THEN defaults
  ELSE JObj([i \in DOMAIN defaults[2] |->
               LET key == defaults[2][i][1]
               IN  IF key \in Keys(data[2]) THEN <<key, GetField(data[2], key)>>
                   ELSE defaults[2][i]]
            \o SelectSeq(data[2], LAMBDA f : f[1] \notin Keys(defaults[2])))

DEFAULT_PROGRESS_JSON ==
  JObj(<< <<"totalXP", JNum("0")>>, <<"currentStreak", JNum("0")>>,
          <<"longestStreak", JNum("0")>>, <<"challengesCompleted", JNum("0")>>,
          <<"correctAnswers", JNum("0")>>, <<"totalAnswers", JNum("0")>>,
          <<"lastActivityDate", JStr("")>> >>)

Present(item) == item # None /\ item[1] # <<>>

getUserProgressText(item) ==
  Catch(IF Present(item) THEN Spread(DEFAULT_PROGRESS_JSON, tryParse(item[1]))
        ELSE DEFAULT_PROGRESS_JSON,
        DEFAULT_PROGRESS_JSON)

\* t - data.timestamp < limit; a comparison with NaN is false
Fresh(timestamp, t, limit) ==
  timestamp[1] = "num" /\ t - Numerals[timestamp[2]] < limit

getCachedChallengesText(item, t) ==
  Catch(IF Present(item)
        THEN LET data == tryParse(item[1])
                 timestamp == Property(data, "timestamp")
             IN  IF timestamp = Threw THEN Threw
                 ELSE IF Fresh(timestamp, t, ChallengeTTL) THEN Property(data, "challenges")
                 ELSE JNull
        ELSE JNull,
        JNull)

RepoCacheTTL == 1

Expired_AtLimit(timestamp, t, limit) ==
  timestamp[1] = "num" /\ t - Numerals[timestamp[2]] >= limit

\* Date.now() - data.timestamp > CACHE_DURATION_MS; a comparison with NaN is false
Expired(timestamp, t, limit) ==
  timestamp[1] = "num" /\ t - Numerals[timestamp[2]] > limit

\* data is what getCachedRepo returns, item the entry it leaves under the key
getCachedRepoText(item, t) ==
  IF ~Present(item) THEN [data |-> JNull, item |-> item]
  ELSE LET data == tryParse(item[1])
           timestamp == Property(data, "timestamp")
       IN  IF timestamp = Threw THEN [data |-> Catch(Threw, JNull), item |-> item]
           ELSE IF Expired(timestamp, t, RepoCacheTTL) THEN [data |-> JNull, item |-> None]
           ELSE [data |-> data, item |-> item]

getRepoHistory(item) ==
  Catch(IF Present(item) THEN tryParse(item[1]) ELSE JArr(<<>>), JArr(<<>>))

\* The readers, and what each returns on a miss.
Readers == {"getUserProgress", "getCachedChallenges", "getSavedLearningPath",
            "getCachedRepo", "getRepoHistory"}

Miss(reader) ==
  IF reader = "getUserProgress" THEN DEFAULT_PROGRESS_JSON
  ELSE IF reader = "getRepoHistory" THEN JArr(<<>>)
  ELSE JNull

read(reader, item, t) ==
  IF reader = "getUserProgress" THEN getUserProgressText(item)
  ELSE IF reader = "getCachedChallenges" THEN getCachedChallengesText(item, t)
  ELSE IF reader = "getSavedLearningPath"
    THEN getSavedLearningPath([NoPaths EXCEPT !["A"] = item], "A")
  ELSE IF reader = "getCachedRepo" THEN getCachedRepoText(item, t).data
  ELSE getRepoHistory(item)

\* Texts that are not JSON: cut short, unbalanced, a missing value, a bare
\* word, text after the value.
CorruptTexts ==
  { <<"{">>, <<"]">>, <<Quote>>, <<"undefined">>, <<"null", "null">>,
    <<"[", Quote, "x", ",">>, <<"{", Quote, "totalXP", ":", "}">>,
    <<"{", Quote, "timestamp", ":", "0", ",">>,
    SubSeq(stringify(StructuredPath), 1, 20) }

\* What the program itself writes under each reader's key.
WrittenValues(reader) ==
  IF reader = "getUserProgress"
    THEN { Spread(DEFAULT_PROGRESS_JSON, JObj(<< <<"totalXP", JNum("30")>>,
                                                 <<"totalAnswers", JNum("1")>> >>)),
           JObj(<< <<"totalXP", JNum("30")>> >>) }
  ELSE IF reader = "getCachedChallenges"
    THEN { JObj(<< <<"challenges", JArr(<< JObj(<< <<"question", JStr("q")>> >>) >>)>>,
                   <<"timestamp", JNum("1")>> >>) }
  ELSE IF reader = "getSavedLearningPath" THEN { StructuredPath, JStr("raw text") }
  ELSE IF reader = "getCachedRepo"
    THEN { JObj(<< <<"info", JObj(<< <<"fullName", JStr("o/A")>> >>)>>,
                   <<"tree", JObj(<< <<"path", JStr("")>> >>)>>,
                   <<"timestamp", JNum("0")>> >>) }
  ELSE { JArr(<<>>), JArr(<< JObj(<< <<"fullName", JStr("o/A")>> >>) >>) }

TestItems(reader) ==
  {None, Some(<<>>), Some(<<"null">>)}
  \cup {Some(text) : text \in CorruptTexts}
  \cup {Some(stringify(v)) : v \in WrittenValues(reader)}

ReadTimes == {1, 30}

InitCorrupt ==
  /\ state = initialState
  /\ listeners = <<>>
  /\ tab = "tree"
  /\ dom = EmptyDom
  /\ expandedFolders = {}
  /\ pathStore = NoPaths
  /\ simulation = None
  /\ running = {}
  /\ attached = {}
  /\ graph = NoGraph
  /\ infoBar = None
  /\ pendingFetch = [r \in Repos |-> 0]
  /\ pendingPath = {}
  /\ notified = <<>>
  /\ events = <<>>
  /\ renders = 0
  /\ orphaned = {}
  /\ lastOp = Op("init")
  /\ InitChallenge
  /\ chatState = NoChat
  /\ sidebarOpen = FALSE
  /\ fab = FALSE
  /\ pendingChat = FALSE
  /\ \E reader \in Readers : \E item \in TestItems(reader) : \E t \in ReadTimes :
       input = [reader |-> reader, item |-> item, t |-> t]
  /\ output = None

CallRead ==
  /\ output = None
  /\ output' = Some(read(input.reader, input.item, input.t))
  /\ lastOp' = Op("read")
  /\ AssignView(World)
  /\ UNCHANGED <<input, asyncVars, challengeVars>>

NextCorrupt == CallRead

SpecCorrupt == InitCorrupt /\ [][NextCorrupt]_vars

(***************************************************************************)
(* fetchRepository (services/github.ts) over the repository cache: calls   *)
(* for two repositories, overlapping, with the clock in hours. input holds *)
(* the cache items (texts), the hour each was written at, and the calls    *)
(* waiting for the metadata and for the tree.                              *)
(***************************************************************************)

MaxHours == 3

\* JSON.stringify of Date.now()
NumeralOf(t) == CHOOSE k \in DOMAIN Numerals : Numerals[k] = t

RepoInfoOf(r) == JObj(<< <<"fullName", JStr(r)>> >>)
RepoTreeOf(r) == JObj(<< <<"path", JStr("")>>, <<"name", JStr(r)>> >>)

\* setCachedRepo: the item under the key afterwards; quota is setItem throwing
setCachedRepo(item, info, tree, t, quota) ==
  IF quota THEN item
  ELSE Some(stringify(JObj(<< <<"info", info>>, <<"tree", tree>>,
                              <<"timestamp", JNum(NumeralOf(t))>> >>)))

\* fetchRepository up to its first await
fetchRepositoryStart(h, r, t) ==
  LET res == getCachedRepoText(h.cache[r], t)
      h1 == [h EXCEPT !.cache[r] = res.item]
  IN  IF res.data # JNull
      THEN [h |-> h1,
            result |-> Some([repo |-> r, from |-> "cache",
                             info |-> Property(res.data, "info"),
                             tree |-> Property(res.data, "tree")])]
      ELSE [h |-> [h1 EXCEPT !.info[r] = @ + 1], result |-> None]

\* fetchRepository after fetchRepoTree resolved
fetchRepositoryDone(h, r, t, quota) ==
  LET written == setCachedRepo(h.cache[r], RepoInfoOf(r), RepoTreeOf(r), t, quota)
  IN  [h |-> [h EXCEPT !.cache[r] = written,
                       !.storedAt[r] = IF quota THEN @ ELSE Some(t),
                       !.tree[r] = @ - 1],
       result |-> Some([repo |-> r, from |-> "network",
                        info |-> RepoInfoOf(r), tree |-> RepoTreeOf(r)])]

InitRepoCache ==
  /\ state = initialState
  /\ listeners = <<>>
  /\ tab = "tree"
  /\ dom = EmptyDom
  /\ expandedFolders = {}
  /\ pathStore = NoPaths
  /\ simulation = None
  /\ running = {}
  /\ attached = {}
  /\ graph = NoGraph
  /\ infoBar = None
  /\ pendingFetch = [r \in Repos |-> 0]
  /\ pendingPath = {}
  /\ notified = <<>>
  /\ events = <<>>
  /\ renders = 0
  /\ orphaned = {}
  /\ lastOp = Op("init")
  /\ InitChallenge
  /\ chatState = NoChat
  /\ sidebarOpen = FALSE
  /\ fab = FALSE
  /\ pendingChat = FALSE
  /\ input = [cache |-> [r \in Repos |-> None], storedAt |-> [r \in Repos |-> None],
              info |-> [r \in Repos |-> 0], tree |-> [r \in Repos |-> 0]]
  /\ output = None

harnessFrame ==
  UNCHANGED <<storeVars, viewVars, asyncVars, notified, events, renders, orphaned,
              challengeVars, chatVars>>

CallFetchRepository(r) ==
  /\ input.info[r] + input.tree[r] < MaxPending
  /\ input' = fetchRepositoryStart(input, r, now).h
  /\ output' = fetchRepositoryStart(input, r, now).result
  /\ lastOp' = [Op("fetchRepository") EXCEPT !.arg = Some(r)]
  /\ harnessFrame

\* fetchRepoInfo resolved: fetchRepoTree is awaited next
RepoInfoFetched(r) ==
  /\ input.info[r] > 0
  /\ input' = [input EXCEPT !.info[r] = @ - 1, !.tree[r] = @ + 1]
  /\ output' = None
  /\ lastOp' = [Op("repoInfoFetched") EXCEPT !.arg = Some(r)]
  /\ harnessFrame

\* fetchRepoInfo or fetchRepoTree rejected: fetchRepository rejects
RepoFetchFailed(r, phase) ==
  /\ input[phase][r] > 0
  /\ input' = [input EXCEPT ![phase][r] = @ - 1]
  /\ output' = Some([repo |-> r, from |-> "error", info |-> JNull, tree |-> JNull])
  /\ lastOp' = [Op("repoFetchFailed") EXCEPT !.arg = Some(r)]
  /\ harnessFrame

RepoTreeFetched(r, quota) ==
  /\ input.tree[r] > 0
  /\ input' = fetchRepositoryDone(input, r, now, quota).h
  /\ output' = fetchRepositoryDone(input, r, now, quota).result
  /\ lastOp' = [Op("repoTreeFetched") EXCEPT !.arg = Some(r)]
  /\ harnessFrame

HourPasses ==
  /\ now < MaxHours
  /\ AssignChallenge([ChallengeWorld EXCEPT !.now = @ + 1])
  /\ lastOp' = Op("hourPasses")
  /\ AssignView(World)
  /\ UNCHANGED asyncVars

NextRepoCache ==
  \/ \E r \in Repos : CallFetchRepository(r)
  \/ \E r \in Repos : RepoInfoFetched(r)
  \/ \E r \in Repos : \E phase \in {"info", "tree"} : RepoFetchFailed(r, phase)
  \/ \E r \in Repos : \E quota \in BOOLEAN : RepoTreeFetched(r, quota)
  \/ HourPasses

SpecRepoCache == InitRepoCache /\ [][NextRepoCache]_vars

(***************************************************************************)
(* saveRepoToHistory (services/github.ts) called for eleven repositories,  *)
(* starting from the histories that saving the first k of them leaves.     *)
(* input holds the stored item (a text), and for each repository the       *)
(* number of the last call that saved it (0: never).                       *)
(***************************************************************************)

MAX_HISTORY == 10
MaxSaves == 2

RepoNames == <<"r1", "r2", "r3", "r4", "r5", "r6", "r7", "r8", "r9", "r10", "r11">>

HistoryEntry(fullName, t) ==
  JObj(<< <<"fullName", JStr(fullName)>>, <<"savedAt", JNum(NumeralOf(t))>> >>)

saveRepoToHistory_NoFilter(item, fullName, t, quota) ==
  LET history == getRepoHistory(item)
      added == <<HistoryEntry(fullName, t)>> \o history[2]
      trimmed == SubSeq(added, 1, IF Len(added) < MAX_HISTORY THEN Len(added) ELSE MAX_HISTORY)
  IN  Some(stringify(JArr(trimmed)))

\* saveRepoToHistory: the item under the key afterwards. A history that is
\* not an array, or holds null, makes filter throw; quota is setItem throwing.
saveRepoToHistory(item, fullName, t, quota) ==
  LET history == getRepoHistory(item)
  IN  IF history[1] # "arr" \/ \E i \in DOMAIN history[2] : history[2][i] = JNull
      THEN item
      ELSE
        LET filtered == SelectSeq(history[2],
                                  LAMBDA r : Property(r, "fullName") # JStr(fullName))
            added == <<HistoryEntry(fullName, t)>> \o filtered
            trimmed == SubSeq(added, 1,
                              IF Len(added) < MAX_HISTORY THEN Len(added) ELSE MAX_HISTORY)
        IN  IF quota THEN item ELSE Some(stringify(JArr(trimmed)))

\* The item after the first k repositories were saved in order.
RECURSIVE SavedInOrder(_)
SavedInOrder(k) ==
  IF k = 0 THEN None ELSE saveRepoToHistory(SavedInOrder(k - 1), RepoNames[k], 0, FALSE)

InitHistory ==
  /\ state = initialState
  /\ listeners = <<>>
  /\ tab = "tree"
  /\ dom = EmptyDom
  /\ expandedFolders = {}
  /\ pathStore = NoPaths
  /\ simulation = None
  /\ running = {}
  /\ attached = {}
  /\ graph = NoGraph
  /\ infoBar = None
  /\ pendingFetch = [r \in Repos |-> 0]
  /\ pendingPath = {}
  /\ notified = <<>>
  /\ events = <<>>
  /\ renders = 0
  /\ orphaned = {}
  /\ lastOp = Op("init")
  /\ InitChallenge
  /\ chatState = NoChat
  /\ sidebarOpen = FALSE
  /\ fab = FALSE
  /\ pendingChat = FALSE
  /\ \E k \in 0..MAX_HISTORY :
       input = [item |-> SavedInOrder(k),
                lastSave |-> [i \in DOMAIN RepoNames |-> IF i <= k THEN i ELSE 0],
                calls |-> k]
  /\ output = 0

CallSaveRepoToHistory(i, quota) ==
  /\ output < MaxSaves
  /\ output' = output + 1
  /\ input' = [input EXCEPT !.item = saveRepoToHistory(@, RepoNames[i], now, quota),
                            !.lastSave[i] = IF quota THEN @ ELSE input.calls + 1,
                            !.calls = @ + 1]
  /\ lastOp' = [Op("saveRepoToHistory") EXCEPT !.arg = Some(RepoNames[i]), !.silent = quota]
  /\ harnessFrame

NextHistory == \E i \in DOMAIN RepoNames : \E quota \in BOOLEAN : CallSaveRepoToHistory(i, quota)

SpecHistory == InitHistory /\ [][NextHistory]_vars

(***************************************************************************)
(* The learning-path store alone (main.ts): saves, lookups and evictions   *)
(* by the durable store.  input remembers, per repository, the value last  *)
(* saved and not evicted since; output is the last lookup's result.        *)
(***************************************************************************)

InitLearningPath ==
  /\ state = initialState
  /\ listeners = <<>>
  /\ tab = "tree"
  /\ dom = EmptyDom
  /\ expandedFolders = {}
  /\ pathStore = NoPaths
  /\ simulation = None
  /\ running = {}
  /\ attached = {}
  /\ graph = NoGraph
  /\ infoBar = None
  /\ pendingFetch = [r \in Repos |-> 0]
  /\ pendingPath = {}
  /\ notified = <<>>
  /\ events = <<>>
  /\ renders = 0
  /\ orphaned = {}
  /\ lastOp = Op("init")
  /\ InitChallenge
  /\ chatState = NoChat
  /\ sidebarOpen = FALSE
  /\ fab = FALSE
  /\ pendingChat = FALSE
  /\ input = [r \in Repos |-> None]
  /\ output = None

CallSaveLearningPath(repoName, path) ==
  /\ input' = [input EXCEPT ![repoName] = Some(path)]
  /\ lastOp' = [Op("saveLearningPath") EXCEPT !.arg = repoName]
  /\ AssignView([World EXCEPT !.pathStore = saveLearningPath(@, repoName, path)])
  /\ UNCHANGED <<output, asyncVars, challengeVars>>

CallGetSavedLearningPath(repoName) ==
  /\ output' = Some(getSavedLearningPath(pathStore, repoName))
  /\ lastOp' = [Op("getSavedLearningPath") EXCEPT !.arg = repoName]
  /\ AssignView(World)
  /\ UNCHANGED <<input, asyncVars, challengeVars>>

\* The durable store drops an entry.
EvictLearningPath(repoName) ==
  /\ pathStore[repoName] # None
  /\ input' = [input EXCEPT ![repoName] = None]
  /\ lastOp' = [Op("evict") EXCEPT !.arg = repoName]
  /\ AssignView([World EXCEPT !.pathStore[repoName] = None])
  /\ UNCHANGED <<output, asyncVars, challengeVars>>

NextLearningPath ==
  \/ \E r \in Repos : \E path \in TestPaths : CallSaveLearningPath(r, path)
  \/ \E r \in Repos : CallGetSavedLearningPath(r)
  \/ \E r \in Repos : EvictLearningPath(r)

SpecLearningPath == InitLearningPath /\ [][NextLearningPath]_vars

(***************************************************************************)
(* Claims about the state store                                            *)
(***************************************************************************)

Calls(log, l) == Cardinality({i \in DOMAIN log : log[i].listener = l})

\* C1: a setState call with silent=true invokes no subscriber, and afterwards
\* getState() holds the passed value in every field passed and the previous
\* value in every other field.
C1_SilentSetState ==
  [][ (lastOp'.op = "setState" /\ lastOp'.silent) =>
        /\ notified' = <<>>
        /\ \A f \in Fields :
             state'[f] = IF f \in DOMAIN lastOp'.updates
                         THEN lastOp'.updates[f] ELSE state[f] ]_vars

C1_Witness ==
  /\ lastOp.op = "setState" /\ lastOp.silent
  /\ Len(listeners) = 2
  /\ DOMAIN lastOp.updates = {"loading", "error"}
  /\ state.loading /\ state.view = "repo"
  /\ notified = <<>>

\* C2: a setState call with silent=false invokes every subscriber registered
\* at the time of the call exactly once, and each receives the merged state.
C2_NotifyAfterMerge ==
  [][ (lastOp'.op = "setState" /\ ~lastOp'.silent) =>
        /\ \A l \in Range(listeners) : Calls(notified', l) = 1
        /\ Len(notified') = Len(listeners)
        /\ \A i \in DOMAIN notified' :
             /\ notified'[i].seen = state'
             /\ \A f \in DOMAIN lastOp'.updates :
                  notified'[i].seen[f] = lastOp'.updates[f] ]_vars

C2_Witness ==
  /\ lastOp.op = "setState" /\ ~lastOp.silent
  /\ Len(listeners) = 2 /\ Len(notified) = 2
  /\ "selectedFile" \in DOMAIN lastOp.updates
  /\ notified[1].seen.selectedFile # None

\* C6: every resetState call leaves the initial defaults in every field and
\* invokes every registered subscriber, also when the previous call was a
\* resetState and the state was already the initial one.
C6_ResetAlwaysNotifies ==
  lastOp.op = "resetState" =>
    /\ state = initialState
    /\ \A l \in Range(listeners) : Calls(notified, l) = 1
    /\ \A i \in DOMAIN notified : notified[i].seen = initialState

C6_Witness ==
  /\ lastOp.op = "resetState" /\ lastOp.again
  /\ Len(listeners) = 2 /\ Len(notified) = 2

\* C17: subscribe(listener) registers the listener after those already
\* registered; after the returned function is called the listener is not
\* registered and no later update invokes it; every non-silent update invokes
\* the registered listeners, each once, in registration order, whichever
\* fields it passes.
C17_SubscribersInOrder ==
  [][ /\ lastOp'.op = "subscribe" =>
           listeners' = IF lastOp'.arg \in Range(listeners)
                        THEN listeners ELSE Append(listeners, lastOp'.arg)
      /\ lastOp'.op = "unsubscribe" =>
           /\ lastOp'.arg \notin Range(listeners')
           /\ listeners' = SelectSeq(listeners, LAMBDA x : x # lastOp'.arg)
      /\ lastOp'.op \notin {"subscribe", "unsubscribe"} => listeners' = listeners
      /\ \A i \in DOMAIN notified' : notified'[i].listener \in Range(listeners)
      /\ ((lastOp'.op = "setState" /\ ~lastOp'.silent) \/ lastOp'.op = "resetState") =>
           [i \in 1..Len(notified') |-> notified'[i].listener] = listeners ]_vars

C17_Witness ==
  /\ lastOp.op = "setState" /\ ~lastOp.silent
  /\ DOMAIN lastOp.updates = {}
  /\ listeners = <<"L2", "L1">>
  /\ Len(notified) = 2
  /\ notified[1].listener = "L2" /\ notified[2].listener = "L1"

(***************************************************************************)
(* Claims about the render cycle and the graph lifecycle                   *)
(***************************************************************************)

\* C3: teardown-before-replace: whenever render() replaces the root subtree,
\* no simulation is running in a container that the replacement removes (it
\* has been stopped by cleanupGraph first).
C3_TeardownBeforeReplace == orphaned = {}

\* C4: clicking a graph node that is a file sets selectedFile to that file
\* silently (no subscriber call, no render, the same simulation instance
\* afterwards) and dispatches exactly one 'repox:fileselected' event carrying
\* the file; clicking a folder node changes no AppState field and dispatches
\* no event.
C4_GraphNodeClick ==
  [][ lastOp'.op = "graphClick" =>
        LET d == lastOp'.arg[1]
        IN  /\ notified' = <<>>
            /\ renders' = 0
            /\ simulation' = simulation /\ running' = running /\ attached' = attached
            /\ IF d.type = "file"
               THEN /\ state'.selectedFile # None
                    /\ state'.selectedFile[1].path = d.path
                    /\ state'.selectedFile[1].type = "file"
                    /\ findNodeByPath(state.fileTree, d.path) = state'.selectedFile
                    /\ \A f \in Fields \ {"selectedFile"} : state'[f] = state[f]
                    /\ events' = <<[type |-> "repox:fileselected", file |-> state'.selectedFile]>>
               ELSE /\ state' = state
                    /\ events' = <<>> ]_vars

C4_Witness ==
  /\ lastOp.op = "graphClick" /\ lastOp.arg[1].type = "file"
  /\ state.selectedFile = Some(File("src/b.ts", 20))
  /\ infoBar = Some(File("src/b.ts", 20))
  /\ simulation # None /\ running = Range(simulation) /\ attached = running
  /\ Len(events) = 1 /\ notified = <<>> /\ renders = 0

\* C5: at most one graph simulation is running, and it is the one the
\* controller refers to.
C5_SingleSimulation ==
  /\ Cardinality(running) <= 1
  /\ running = Range(simulation)

\* A second instance, created by a re-render that a sidebar click caused while
\* the first was running.
C5_Witness ==
  /\ lastOp.op = "treeClick"
  /\ orphaned # {}
  /\ simulation # None /\ simulation[1] \notin orphaned
  /\ running = Range(simulation)

\* C7: answering a question with the option equal to its correctAnswer adds
\* the question's points to the stored totalXP and 1 to currentStreak; any
\* other option leaves totalXP and sets currentStreak to 0; a skip leaves both.
C7_ChallengeScoring ==
  [][ LET s == challengeModalState[1]
          challenge == s.challenges[s.currentIndex + 1]
          before == IF progressStore = None THEN DEFAULT_PROGRESS ELSE progressStore[1]
          after == IF progressStore' = None THEN DEFAULT_PROGRESS ELSE progressStore'[1]
      IN  /\ lastOp'.op = "answer" =>
                IF challenge.options[lastOp'.arg[1]] = challenge.correctAnswer
                THEN /\ after.totalXP = before.totalXP + challenge.points
                     /\ after.currentStreak = before.currentStreak + 1
                ELSE /\ after.totalXP = before.totalXP
                     /\ after.currentStreak = 0
          /\ lastOp'.op = "skip" =>
                /\ after.totalXP = before.totalXP
                /\ after.currentStreak = before.currentStreak
    ]_vars

\* C8: when the results of a session are dismissed, the stored
\* challengesCompleted is exactly one more than it was when the session was
\* created.
C8_CompletedOncePerSession ==
  [][ lastOp'.op = "dismiss" =>
        /\ progressStore' # None
        /\ progressStore'[1].challengesCompleted = sessionStart + 1
    ]_vars

C8_Witness ==
  /\ lastOp.op = "dismiss"
  /\ sessionStart = 1
  /\ progressStore # None
  /\ progressStore[1].challengesCompleted = 2
  /\ progressStore[1].totalAnswers = 2
  /\ progressStore[1].correctAnswers = 1

\* C9: marking a module complete while the cache holds a non-empty set for
\* (repository, module) stored less than 24 hours ago sends no request, shows
\* no loading state and starts the session at question 0 with the cached
\* challenges; with an entry 24 hours old or older a request is sent and the
\* loading state shown.
C9_CacheHitSkipsLoading ==
  [][ lastOp'.op = "moduleChange"
      /\ <<state.currentRepo[1], lastOp'.arg[1]>> \notin moduleCompletion
      /\ challengeCache[<<state.currentRepo[1], lastOp'.arg[1]>>] # None
      => LET k == <<state.currentRepo[1], lastOp'.arg[1]>>
             entry == challengeCache[k][1]
         IN  IF entry.challenges # <<>> /\ now - entry.timestamp < 24
             THEN /\ pendingGen' = pendingGen
                  /\ modal' = [display |-> TRUE, content |-> "question", isLast |-> FALSE]
                  /\ challengeModalState' # None
                  /\ challengeModalState'[1].challenges = entry.challenges
                  /\ challengeModalState'[1].currentIndex = 0
                  /\ challengeModalState'[1].results = <<>>
             ELSE /\ pendingGen'[k] = pendingGen[k] + 1
                  /\ modal'.display /\ modal'.content = "loading"
    ]_vars

C9_Witness ==
  /\ lastOp.op = "moduleChange" /\ lastOp.arg = Some(1)
  /\ now = 12
  /\ challengeCache[<<"A", 1>>] = Some([challenges |-> <<Q1, Q2>>, timestamp |-> 0])
  /\ challengeModalState # None
  /\ challengeModalState[1].challenges = <<Q1, Q2>>
  /\ challengeModalState[1].currentIndex = 0
  /\ modal.display /\ modal.content = "question"
  /\ PendingGenTotal = 0

\* C10: when a generation request fails or answers with an empty list, no
\* session exists afterwards, the modal is not displayed, and the challenge
\* cache is as it was.
C10_FailedGenerationAborts ==
  [][ lastOp'.op \in {"genFail", "genEmpty"} =>
        /\ challengeModalState' = None
        /\ ~modal'.display
        /\ challengeCache' = challengeCache
    ]_vars

C10_Witness ==
  /\ lastOp.op = "genEmpty"
  /\ challengeModalState = None
  /\ ~modal.display /\ modal.content = "loading"
  /\ \A k \in CacheKeys : challengeCache[k] = None
  /\ PendingGenTotal = 0

\* C11: whenever the view is 'landing' the chat message list is empty.
C11_NoChatOnLanding == state.view = "landing" => chatState.messages = <<>>

\* C12: from view 'landing' with loading false, an explore whose URL is empty
\* or does not match the GitHub pattern sets a non-empty error, leaves loading
\* false, view 'landing', currentRepo and fileTree null, and starts no fetch.
C12_InvalidUrlRejected ==
  [][ /\ lastOp'.op = "explore"
      /\ state.view = "landing" /\ ~state.loading
      /\ state.repoUrl \notin {UrlA, UrlB, UrlAGit}
      => /\ state'.error # None /\ state'.error[1] # ""
         /\ ~state'.loading
         /\ state'.view = "landing"
         /\ state'.currentRepo = None /\ state'.fileTree = None
         /\ pendingFetch' = pendingFetch
    ]_vars

C12_Witness ==
  /\ lastOp.op = "explore"
  /\ state.repoUrl = <<"github.com", "/", "o", "/", "A">>
  /\ state.error = Some("Invalid GitHub URL. Format: https://github.com/owner/repo")
  /\ ~state.loading /\ state.view = "landing"
  /\ PendingTotal = 0

\* C13: a successful repository fetch sets view to 'repo', currentRepo and
\* fileTree to the fetched values, loading to false and error to null in one
\* merge with one notification, and leaves selectedFile and repoUrl as they
\* were.
C13_FetchSuccessAppliesRepoData ==
  [][ lastOp'.op = "fetchSuccess" =>
        LET r == lastOp'.arg[1]
        IN  /\ state' = [state EXCEPT !.view = "repo", !.currentRepo = Some(r),
                                      !.fileTree = Some(TreeOfRepo(r)),
                                      !.loading = FALSE, !.error = None]
            /\ state'.selectedFile = state.selectedFile
            /\ state'.repoUrl = state.repoUrl
            /\ Len(notified') = 1
            /\ notified'[1].seen = state'
    ]_vars

C13_Witness ==
  /\ lastOp.op = "fetchSuccess" /\ lastOp.arg = Some("B")
  /\ state.view = "repo" /\ state.currentRepo = Some("B") /\ state.fileTree = Some(TreeB)
  /\ ~state.loading /\ state.error = None
  /\ state.selectedFile = Some(File("src/b.ts", 20))
  /\ Len(notified) = 1

\* C14: the graph built from a tree with node bound K has at most K nodes and
\* exactly one edge fewer than nodes; a root without children gives one node
\* and no edge.
C14_GraphSizeBound ==
  output # None =>
    /\ Len(output[1].nodes) <= input[1].maxNodes
    /\ Len(output[1].links) = Len(output[1].nodes) - 1
    /\ input[1].tree.children = <<>> =>
          Len(output[1].nodes) = 1 /\ Len(output[1].links) = 0

C14_Witness ==
  /\ output # None
  /\ input[1].maxNodes = 3
  /\ TreeSize(input[1].tree) > 3
  /\ Len(output[1].nodes) = 3
  /\ Len(output[1].links) = 2

\* C15: after cleanupGraph no graph instance exists; called when none exists,
\* in particular a second time in a row, it changes nothing.
C15_CleanupIdempotent ==
  [][ lastOp'.op = "cleanupGraph" =>
        /\ simulation' = None /\ running' = {} /\ attached' = {} /\ graph' = NoGraph
        /\ simulation = None => UNCHANGED <<storeVars, viewVars>>
    ]_vars

C15_Witness ==
  /\ lastOp.op = "cleanupGraph"
  /\ output = Some(2)
  /\ input[1].tab = "graph"
  /\ simulation = None /\ running = {} /\ graph = NoGraph

\* C18: a keystroke in the repository URL input leaves getState().repoUrl equal
\* to the input's text, invokes no subscriber and runs no render: the page is
\* the one that was there before the keystroke.
C18_KeystrokeSilent ==
  [][ lastOp'.op = "input" =>
        /\ getState(World').repoUrl = lastOp'.arg[1]
        /\ notified' = <<>>
        /\ renders' = 0
        /\ dom' = dom ]_vars

C18_Witness ==
  /\ lastOp.op = "input"
  /\ lastOp.arg = Some(UrlAGit)
  /\ state.repoUrl = UrlAGit
  /\ "render" \in Range(listeners)
  /\ notified = <<>> /\ renders = 0
  /\ dom.main = "landing"

(***************************************************************************)
(* Claims about the durable store                                          *)
(***************************************************************************)

\* C16: a lookup by repository name returns a value deep-equal to the one
\* last saved for that repository and not evicted since (null when there is
\* none), whatever was saved for any other repository in between.
C16_LearningPathRoundTrip ==
  /\ \A r \in Repos :
       getSavedLearningPath(pathStore, r) = (IF input[r] = None THEN JNull ELSE input[r][1])
  /\ lastOp.op = "getSavedLearningPath" =>
       output = Some(IF input[lastOp.arg] = None THEN JNull ELSE input[lastOp.arg][1])

C16_Witness ==
  /\ lastOp.op = "getSavedLearningPath"
  /\ lastOp.arg = "A"
  /\ input["A"] = Some(StructuredPath)
  /\ input["B"] = Some(JStr(","))
  /\ output = Some(StructuredPath)

\* C19: a durable-store write that fails never aborts the operation that made
\* it: a generated challenge set still starts its session, an answered
\* question still reaches its feedback, the last question's Next still shows
\* the results, and a checked module still opens the challenge modal.
C19_WriteFailuresSwallowed ==
  [][ /\ lastOp'.op = "genDoneQuota" =>
           challengeModalState' # None /\ modal'.display /\ modal'.content = "question"
      /\ lastOp'.op = "answerQuota" => modal'.content = "feedback"
      /\ lastOp'.op = "nextQuota" => modal'.content = "results"
      /\ lastOp'.op = "moduleChangeQuota" =>
           (<<state.currentRepo[1], lastOp'.arg[1]>> \notin moduleCompletion => modal'.display)
    ]_vars

\* C20: a read of an item whose text is not JSON returns the reader's miss
\* value and does not raise: the all-zero default for getUserProgress, an
\* empty list for getRepoHistory, null for getCachedChallenges,
\* getSavedLearningPath and the repository cache.
C20_CorruptReadsAsMiss ==
  (output # None /\ input.item # None /\ input.item[1] \in CorruptTexts) =>
    /\ output[1] # Threw
    /\ output[1] = Miss(input.reader)

C20_Witness ==
  /\ output # None
  /\ input.reader = "getUserProgress"
  /\ input.item = Some(<<"{", Quote, "totalXP", ":", "}">>)
  /\ output = Some(DEFAULT_PROGRESS_JSON)

(***************************************************************************)
(* Claims about the isolation of the challenge modal and of view state     *)
(***************************************************************************)

ChallengeOps ==
  {"moduleChange", "genDone", "genEmpty", "genFail", "answer", "skip", "next", "dismiss"}

\* C21: no transition of the challenge modal (start, loading, answer, skip,
\* next question, results, dismiss, abort) changes a field of the store or
\* calls a subscriber, and a step in which the page is rendered leaves the
\* session (challenges, current index, results) as it was.
C21_ChallengeIsolated ==
  [][ /\ lastOp'.op \in ChallengeOps => (getState(World') = getState(World) /\ notified' = <<>>)
      /\ renders' > 0 => challengeModalState' = challengeModalState ]_vars

C21_Witness ==
  /\ lastOp.op = "fetchSuccess"
  /\ renders > 0
  /\ challengeModalState # None
  /\ challengeModalState[1].currentIndex = 1
  /\ Len(challengeModalState[1].results) = 1
  /\ modal.display

\* C22: when a repository is loaded in place of another one, no folder of the
\* new tree is expanded but its root: the paths expanded in the previous
\* repository are forgotten.
C22_ExpandedResetOnLoad ==
  [][ ( /\ lastOp'.op = "fetchSuccess"
        /\ state.currentRepo # None
        /\ state'.currentRepo # state.currentRepo )
      => /\ expandedFolders' \subseteq {state'.fileTree[1].path}
         /\ \A n \in dom'.nodes : n.path \in {"src", "a.ts"} ]_vars

(***************************************************************************)
(* Claims about overlapping explore requests                               *)
(***************************************************************************)

\* C23: a repository response is applied whenever it arrives: whichever
\* request was started last and whatever view is shown, afterwards the store
\* holds the arrived repository and its tree, the view is 'repo' and the page
\* shows it.
C23_LateResponseWins ==
  [][ lastOp'.op = "fetchSuccess" =>
        LET r == lastOp'.arg[1]
        IN  /\ getState(World').currentRepo = Some(r)
            /\ getState(World').fileTree = Some(TreeOfRepo(r))
            /\ getState(World').view = "repo"
            /\ dom'.view = "repo" /\ dom'.main # "landing" ]_vars

\* Two requests overlap: A's response is applied while the request for B,
\* whose URL is the one in the input, is still in flight.
C23_Witness ==
  /\ lastOp.op = "fetchSuccess" /\ lastOp.arg = Some("A")
  /\ state.repoUrl = UrlB
  /\ pendingFetch["B"] = 1
  /\ state.currentRepo = Some("A") /\ state.fileTree = Some(TreeA)
  /\ state.view = "repo"

\* C24: loading is true exactly when at least one repository fetch is
\* outstanding.
C24_LoadingIffPending == getState(World).loading <=> PendingTotal > 0

\* C25: an explore, a file selection in the tree and a return to landing each
\* notify the subscriber exactly once from their start to their completion:
\* the step that starts the action notifies once, and for an explore the
\* arrival of its response adds no further notification.
C25_OneNotificationPerAction ==
  [][ /\ (lastOp'.op = "treeClick" /\ lastOp'.arg[1].type = "file") => Len(notified') = 1
      /\ lastOp'.op = "back" => Len(notified') = 1
      /\ lastOp'.op \in {"explore", "repoCard"} => Len(notified') = 1
      /\ lastOp'.op \in {"fetchSuccess", "fetchFail"} => Len(notified') = 0 ]_vars

(***************************************************************************)
(* Claims about leaving the repository and the selected file               *)
(***************************************************************************)

\* C26: after the return from the repository view to the landing view the
\* store holds the initial defaults in every field.
C26_BackRestoresDefaults ==
  [][ lastOp'.op = "back" => getState(World') = initialState ]_vars

\* C27: selectedFile is null or a node of the current fileTree.
C27_SelectedFileInTree ==
  LET st == getState(World)
  IN  st.selectedFile # None =>
        /\ st.fileTree # None
        /\ findNodeByPath(st.fileTree, st.selectedFile[1].path) = st.selectedFile

(***************************************************************************)
(* Claims about the life of a challenge session                            *)
(***************************************************************************)

\* C28: a session showing a question, its feedback or the results for one
\* module is left as it is when a generation request started for another
\* module completes, whether with challenges, with an empty list or with a
\* failure.
C28_SessionSurvivesOtherGeneration ==
  [][ ( /\ lastOp'.op \in {"genDone", "genEmpty", "genFail"}
        /\ challengeModalState # None
        /\ modal.content \in {"question", "feedback", "results"}
        /\ challengeModalState[1].moduleIndex # lastOp'.arg[1][2] )
      => challengeModalState' = challengeModalState ]_vars

\* C29: whenever a session exists its current index is at least 0 and less
\* than the number of challenges; Next on the feedback of question i shows
\* question i+1 when i is not the last index and the results when it is.
C29_IndexInRange ==
  [][ /\ challengeModalState' # None =>
           /\ challengeModalState'[1].currentIndex >= 0
           /\ challengeModalState'[1].currentIndex < Len(challengeModalState'[1].challenges)
      /\ lastOp'.op = "next" =>
           LET s == challengeModalState[1]
               t == challengeModalState'[1]
           IN  IF s.currentIndex < Len(s.challenges) - 1
               THEN modal'.content = "question" /\ t.currentIndex = s.currentIndex + 1
               ELSE modal'.content = "results" /\ t.currentIndex = s.currentIndex ]_vars

C29_Witness ==
  /\ lastOp.op = "next"
  /\ modal.display /\ modal.content = "results"
  /\ challengeModalState # None
  /\ Len(challengeModalState[1].challenges) = 2
  /\ challengeModalState[1].currentIndex = 1
  /\ Len(challengeModalState[1].results) = 2

\* C30: while a session shows its results and they are not yet dismissed, the
\* stored challengesCompleted still has the value it had when the session was
\* created.
C30_CountedAtDismissal ==
  (challengeModalState # None /\ modal.display /\ modal.content = "results") =>
    getUserProgress(progressStore).challengesCompleted = sessionStart

(***************************************************************************)
(* Claims about skipping, the results list and the progress counters       *)
(***************************************************************************)

\* C31: skipping question i leaves the stored progress as it is, appends one
\* result with correct = false and points = 0, keeps the index and shows the
\* feedback of question i, whose Next button is the one an answered question
\* gets (it leads to the results exactly when i is the last index).
C31_SkipAwardsNothing ==
  [][ lastOp'.op = "skip" =>
        LET s == challengeModalState[1]
            t == challengeModalState'[1]
        IN  /\ progressStore' = progressStore
            /\ getUserProgress(progressStore') = getUserProgress(progressStore)
            /\ t.results = Append(s.results, [correct |-> FALSE, points |-> 0])
            /\ t.currentIndex = s.currentIndex
            /\ t.challenges = s.challenges
            /\ modal'.display /\ modal'.content = "feedback"
            /\ modal'.isLast = (s.currentIndex >= Len(s.challenges) - 1) ]_vars

\* The second question is skipped after a correct answer to the first.
C31_Witness ==
  /\ lastOp.op = "skip"
  /\ modal.content = "feedback" /\ modal.isLast
  /\ challengeModalState # None
  /\ challengeModalState[1].currentIndex = 1
  /\ challengeModalState[1].results =
       << [correct |-> TRUE, points |-> 25], [correct |-> FALSE, points |-> 0] >>
  /\ getUserProgress(progressStore).totalXP = 25
  /\ getUserProgress(progressStore).currentStreak = 1
  /\ getUserProgress(progressStore).totalAnswers = 1

\* C32: while a session exists, the number of results equals the current
\* index when a question is shown and the current index plus one when its
\* feedback is shown; when the results are shown it equals the number of
\* challenges and is at least 1.
C32_ResultsFollowIndex ==
  (challengeModalState # None /\ modal.display) =>
    LET s == challengeModalState[1]
    IN  /\ modal.content = "question" => Len(s.results) = s.currentIndex
        /\ modal.content = "feedback" => Len(s.results) = s.currentIndex + 1
        /\ modal.content = "results" =>
             Len(s.results) = Len(s.challenges) /\ Len(s.results) >= 1

\* The results of a two-question set, one answered and one skipped.
C32_Witness ==
  /\ challengeModalState # None
  /\ modal.display /\ modal.content = "results"
  /\ Len(challengeModalState[1].challenges) = 2
  /\ Len(challengeModalState[1].results) = 2
  /\ challengeModalState[1].results[1].correct
  /\ ~challengeModalState[1].results[2].correct
  /\ getUserProgress(progressStore).totalAnswers = 1

\* C33: the stored totalXP is never negative and no step decreases it.
C33_TotalXPMonotonic ==
  [][ /\ getUserProgress(progressStore').totalXP >= 0
      /\ getUserProgress(progressStore').totalXP >= getUserProgress(progressStore).totalXP ]_vars

\* C34: longestStreak is the high-water mark of currentStreak: after every
\* step it is the larger of its previous value and the new currentStreak, so
\* it is never below currentStreak and never decreases; correctAnswers never
\* exceeds totalAnswers.
C34_StreakHighWater ==
  [][ LET before == getUserProgress(progressStore)
          after  == getUserProgress(progressStore')
      IN  /\ after.longestStreak =
               IF after.currentStreak > before.longestStreak
               THEN after.currentStreak ELSE before.longestStreak
          /\ after.longestStreak >= after.currentStreak
          /\ after.longestStreak >= before.longestStreak
          /\ after.correctAnswers <= after.totalAnswers ]_vars

C34_Witness ==
  /\ lastOp.op = "addXP"
  /\ getUserProgress(progressStore).longestStreak = 2
  /\ getUserProgress(progressStore).currentStreak = 1
  /\ getUserProgress(progressStore).challengesCompleted = 1

\* C35: an accepted send appends one user message and sets loading; the
\* settling of its request appends one assistant message (reply or error
\* text) and clears loading, and nothing else appends a message or changes
\* loading; a send with empty text or while loading changes nothing; and
\* loading is always followed by its clearing.
C35_SendThenOneReply ==
  /\ [][ LET before == chatState
             after  == chatState'
             accepted == /\ lastOp'.op = "chatSend"
                         /\ lastOp'.arg # Some("")
                         /\ ~before.isLoading
         IN  /\ accepted =>
                  /\ after.messages = Append(before.messages,
                                             [role |-> "user", content |-> lastOp'.arg[1]])
                  /\ after.isLoading
             /\ (lastOp'.op = "chatSend" /\ ~accepted) =>
                  /\ after = before
                  /\ pendingChat' = pendingChat
             /\ lastOp'.op = "chatSettled" =>
                  /\ before.isLoading
                  /\ after.messages = Append(before.messages,
                                             [role |-> "assistant", content |-> lastOp'.arg[1]])
                  /\ ~after.isLoading
             /\ lastOp'.op \notin {"chatSend", "chatSettled"} =>
                  /\ after.isLoading = before.isLoading
                  /\ Len(after.messages) <= Len(before.messages) ]_vars
  /\ (chatState.isLoading ~> ~chatState.isLoading)

C35_Witness ==
  /\ lastOp.op = "chatSettled"
  /\ Len(chatState.messages) = 2
  /\ chatState.messages[1].role = "user"
  /\ chatState.messages[2] = [role |-> "assistant", content |-> "error"]
  /\ ~chatState.isLoading

\* C36: no node of the built graph is deeper than the maximum depth, whether
\* it is a file or a folder.
C36_NoNodeBeyondDepth ==
  output # None =>
    \A i \in DOMAIN output[1].nodes : output[1].nodes[i].depth <= GraphMaxDepth

\* C36, amended: no folder of the built graph is deeper than the maximum
\* depth and no file is deeper than one level below it: the files directly
\* inside a folder at the maximum depth are kept.
C36_FoldersWithinDepth ==
  output # None =>
    \A i \in DOMAIN output[1].nodes :
      output[1].nodes[i].depth <=
        IF output[1].nodes[i].type = "folder" THEN GraphMaxDepth ELSE GraphMaxDepth + 1

C36_Witness ==
  /\ output # None
  /\ \E i \in DOMAIN output[1].nodes :
       /\ output[1].nodes[i].type = "file"
       /\ output[1].nodes[i].depth = GraphMaxDepth + 1
  /\ TreeSize(input[1].tree) > Len(output[1].nodes)
  /\ input[1].maxNodes = GraphMaxNodes

\* C37: the edges of the built graph are parent-child pairs of the source
\* tree between included nodes, one per included node other than the root,
\* which has none.
C37_EdgesAreTreeEdges ==
  output # None =>
    LET nodes == output[1].nodes
        links == output[1].links
        ids == {nodes[i].id : i \in DOMAIN nodes}
        incoming(id) == {i \in DOMAIN links : links[i].target = id}
    IN  /\ \A i \in DOMAIN links :
             /\ <<links[i].source, links[i].target>> \in TreeEdges(input[1].tree)
             /\ links[i].source \in ids
             /\ links[i].target \in ids
        /\ \A id \in ids :
             Cardinality(incoming(id)) = IF id = "root" THEN 0 ELSE 1

C37_Witness ==
  /\ output # None
  /\ input[1].maxNodes = 4
  /\ TreeSize(input[1].tree) > 4
  /\ Len(output[1].nodes) = 4
  /\ \E i \in DOMAIN output[1].links :
       output[1].links[i] = [source |-> "a", target |-> "a/a"]
  /\ \E i \in DOMAIN output[1].links :
       output[1].links[i] = [source |-> "a", target |-> "a/f"]

\* C38: a call of fetchRepository returns the cached data and issues no
\* request exactly when an entry for the repository written at most one hour
\* ago is in the cache; an older entry is removed and a request issued; and
\* an entry is written only by a call whose metadata and tree requests both
\* succeeded.
C38_CacheHitIffFresh ==
  [][ \A r \in Repos :
        LET fresh == /\ input.cache[r] # None
                     /\ now - input.storedAt[r][1] <= RepoCacheTTL
            requests == input'.info[r] - input.info[r]
        IN  /\ lastOp' = [Op("fetchRepository") EXCEPT !.arg = Some(r)] =>
                 /\ fresh <=> (output' # None /\ output'[1].from = "cache" /\ requests = 0)
                 /\ fresh => /\ output'[1].info = RepoInfoOf(r)
                             /\ output'[1].tree = RepoTreeOf(r)
                             /\ input'.cache[r] = input.cache[r]
                 /\ ~fresh => /\ input'.cache[r] = None
                              /\ requests = 1
                              /\ output' = None
            /\ (input'.cache[r] # input.cache[r] /\ input'.cache[r] # None) =>
                 /\ lastOp' = [Op("repoTreeFetched") EXCEPT !.arg = Some(r)]
                 /\ input.tree[r] > 0 ]_vars

C38_Witness ==
  /\ lastOp.op = "fetchRepository"
  /\ output = None
  /\ \E r \in Repos :
       /\ lastOp.arg = Some(r)
       /\ input.storedAt[r] = Some(0)
       /\ now = 2
       /\ input.cache[r] = None
       /\ input.info[r] = 1

\* C39: whenever the view is 'repo', currentRepo and fileTree are both set.
C39_RepoViewHasTree ==
  state.view = "repo" => state.currentRepo # None /\ state.fileTree # None

C39_Witness ==
  /\ state.view = "repo"
  /\ lastOp.op = "setError"
  /\ state.currentRepo = Some("B")
  /\ state.fileTree = Some(TreeB)
  /\ state.selectedFile # None

\* C40: the stored history has at most ten entries, no full name twice, and
\* lists the repositories in the order of their last save, latest first: the
\* ten saved last, or all of them when fewer were saved.
C40_HistoryRecentFirst ==
  LET history == getRepoHistory(input.item)[2]
      index(name) == CHOOSE i \in DOMAIN RepoNames : RepoNames[i] = name
      at(i) == index(Property(history[i], "fullName")[2])
      later(i) == {j \in DOMAIN RepoNames : input.lastSave[j] > input.lastSave[i]}
  IN  /\ Len(history) <= 10
      /\ \A i, j \in DOMAIN history : i < j => at(i) # at(j)
      /\ \A i, j \in DOMAIN history : i < j => input.lastSave[at(i)] > input.lastSave[at(j)]
      /\ \A i \in DOMAIN RepoNames :
           (\E k \in DOMAIN history : at(k) = i)
             <=> (input.lastSave[i] > 0 /\ Cardinality(later(i)) < 10)
      /\ (lastOp.op = "saveRepoToHistory" /\ ~lastOp.silent) =>
           Property(history[1], "fullName") = JStr(lastOp.arg[1])

C40_Witness ==
  /\ lastOp.op = "saveRepoToHistory"
  /\ ~lastOp.silent
  /\ lastOp.arg = Some("r5")
  /\ output = 2
  /\ Len(getRepoHistory(input.item)[2]) = 10
  /\ input.lastSave[1] = 1
  /\ input.lastSave[11] = 11
  /\ Property(getRepoHistory(input.item)[2][2], "fullName") = JStr("r11")

====
